---- MODULE Spec2Model ----
(***************************************************************************)
(* Model of the yota-analytics discovery pipeline:                         *)
(*   - the scoring formulas of api/youtube/feed.js, advanced-search.js and *)
(*     search.js (JavaScript numbers are modelled as exact rationals),     *)
(*   - the request handlers of feed.js and advanced-search.js,             *)
(*   - shuffleWithSeed of feed.js,                                         *)
(*   - the session-learning store of dashboard/recommendations.js and the  *)
(*     filter pass of dashboard/pages/feed.js,                             *)
(*   - the keyword fallback planner and the handler of the search plan,    *)
(*   - the handlers of api/youtube/search.js and api/ai/rerank.js,         *)
(*   - the page state of dashboard/pages/feed.js (loadFeed and the clicks). *)
(***************************************************************************)
EXTENDS Integers, Sequences, FiniteSets, TLC

VARIABLES
    probe,          \* the last application of a pure function (inputs and outputs);
                    \* SpecClient: the channel unblocked last and its marks since
    pc,             \* handler: position of the request in the handler
    req,            \* handler: the request (handler, mode, userCountry, seed, q)
    now,            \* handler: const now = new Date()
    searchPlan,     \* advanced-search.js: the plan in use
    searchResults,  \* handler: per branch, the outcome of its search call
    items,          \* feed.js items / advanced-search.js allItems
    nextToken,      \* feed.js nextToken
    statsResponse,  \* handler: statsResponse.data.items
    channelData,    \* handler: channelData map
    videos,         \* handler: the scored videos
    failed,         \* handler: the set of upstream calls that failed
    response,       \* handler: what res.json / res.status(..).json sent
    run,            \* SpecShuffle: the two shuffleWithSeed invocations
    session,        \* client: localStorage['yota_session_learning'] (parsed)
    filtered,       \* client: last input and output of the filter pass
    page            \* dashboard/pages/feed.js: the state of the feed page

vars == <<probe, pc, req, now, searchPlan, searchResults, items, nextToken,
          statsResponse, channelData, videos, failed, response, run, session,
          filtered, page>>

hvars == <<pc, req, now, searchPlan, searchResults, items, nextToken,
           statsResponse, channelData, videos, failed, response>>

cvars == <<session, filtered, page>>

\* JavaScript null / undefined
Null == "null"
Undefined == "undefined"

(***************************************************************************)
(* JavaScript numbers, as exact rationals <<numerator, denominator>>.      *)
(***************************************************************************)
Abs(x) == IF x < 0 THEN -x ELSE x

RECURSIVE GCD(_, _)
GCD(a, b) == IF b = 0 THEN a ELSE GCD(b, a % b)

\* Value(S) is the one element of a singleton set; {F(p) : p \in {e}} has the
\* model checker evaluate e once, however often F uses its parameter
Value(S) == CHOOSE v \in S : TRUE

\* the rational n/d in lowest terms, d > 0
Lowest(p) ==
    LET s == IF p[2] < 0 THEN -1 ELSE 1
        g == GCD(Abs(p[1]), Abs(p[2]))
    IN  <<(s * p[1]) \div g, (s * p[2]) \div g>>

R(n, d) == Value({Lowest(p) : p \in {<<n, d>>}})

Num(x) == <<x, 1>>

\* p = <<x, y>>: cross-reduce first, so that the products stay small
Product(p) ==
    LET a == Lowest(<<p[1][1], p[2][2]>>)
        b == Lowest(<<p[2][1], p[1][2]>>)
    IN  <<a[1] * b[1], a[2] * b[2]>>

RMul(x, y) == Value({Product(p) : p \in {<<x, y>>}})

Inverse(y) == IF y[1] < 0 THEN <<-y[2], -y[1]>> ELSE <<y[2], y[1]>>

RDiv(x, y) == Value({Product(<<p[1], Inverse(p[2])>>) : p \in {<<x, y>>}})

Sum(p) ==
    LET g == GCD(p[1][2], p[2][2])
    IN  Lowest(<<p[1][1] * (p[2][2] \div g) + p[2][1] * (p[1][2] \div g),
                 p[1][2] * (p[2][2] \div g)>>)

RAdd(x, y) == Value({Sum(p) : p \in {<<x, y>>}})

RSub(x, y) == Value({Sum(<<p[1], <<-p[2][1], p[2][2]>>>>) : p \in {<<x, y>>}})

\* x < y and x <= y, by cross-multiplication (denominators are positive)
Less(p) == p[1][1] * p[2][2] < p[2][1] * p[1][2]

RLt(x, y) == \E p \in {<<x, y>>} : Less(p)
RLe(x, y) == \E p \in {<<x, y>>} : ~Less(<<p[2], p[1]>>)

\* Math.max / Math.min
MathMax(x, y) == Value({IF Less(p) THEN p[2] ELSE p[1] : p \in {<<x, y>>}})
MathMin(x, y) == Value({IF Less(<<p[2], p[1]>>) THEN p[2] ELSE p[1] : p \in {<<x, y>>}})

\* Math.floor and Math.round (round half up); \div floors in TLA+
MathFloor(x) == Value({p[1] \div p[2] : p \in {x}})
MathRound(x) == Value({(2 * p[1] + p[2]) \div (2 * p[2]) : p \in {x}})

(***************************************************************************)
(* Scoring: api/youtube/feed.js, Step 4.                                   *)
(***************************************************************************)
MsPerHour == 1000 * 60 * 60

\* const ageHours = Math.max((now - publishedAt) / (1000 * 60 * 60), 1)
AgeHours(nowMs, publishedAt) == MathMax(R(nowMs - publishedAt, MsPerHour), Num(1))

\* mutant: the 0.1-day floor is forgotten
AgeDaysWithoutFloor(ageHours) == RDiv(ageHours, Num(24))

\* const ageDays = Math.max(ageHours / 24, 0.1)
AgeDays(ageHours) == MathMax(RDiv(ageHours, Num(24)), R(1, 10))

\* views > 0 ? likes / views : 0
LikeRate(views, likes) == IF views > 0 THEN R(likes, views) ELSE Num(0)

\* views > 0 ? comments / views : 0
CommentRate(views, comments) == IF views > 0 THEN R(comments, views) ELSE Num(0)

\* views > 0 ? (likes + 2 * comments) / views : 0
EngagementRate(views, likes, comments) ==
    IF views > 0 THEN R(likes + 2 * comments, views) ELSE Num(0)

\* channelData[item.snippet.channelId] || {}, then country || null, subscriberCount || 0
ChannelCountry(chData, channelId) ==
    IF channelId \in DOMAIN chData THEN chData[channelId].country ELSE Null

SubscriberCount(chData, channelId) ==
    IF channelId \in DOMAIN chData THEN chData[channelId].subscriberCount ELSE 0

\* mutant: freshnessBoost is left at 1.0
TrendingBoostFlat(ageHours) == Num(1)

\* case 'trending'
TrendingBoost(ageHours) ==
    MathMax(R(6, 10), MathMin(R(14, 10), RSub(R(14, 10), RDiv(ageHours, Num(24)))))

\* mutant: the freshness boost is added instead of multiplied
TrendingScoreBoostAdded(viewsPerHour, engagementRate, freshnessBoost) ==
    RAdd(RMul(viewsPerHour, RAdd(Num(1), RMul(Num(4), engagementRate))), freshnessBoost)

TrendingScore(viewsPerHour, engagementRate, freshnessBoost) ==
    RMul(RMul(viewsPerHour, RAdd(Num(1), RMul(Num(4), engagementRate))), freshnessBoost)

\* case 'weekMovers'
WeekMoversBoost(ageDays) ==
    MathMax(R(7, 10), MathMin(R(12, 10), RSub(R(12, 10), RDiv(ageDays, Num(7)))))

WeekMoversScore(viewsPerDay, engagementRate, freshnessBoost) ==
    RMul(RMul(viewsPerDay, RAdd(Num(1), RMul(Num(3), engagementRate))), freshnessBoost)

\* mutant: the two factors are swapped
RisingSmallScoreSwapped(viewsPerDay, engagementRate) ==
    RMul(engagementRate, RAdd(Num(1), RMul(Num(4), viewsPerDay)))

\* case 'risingSmall'
RisingSmallScore(viewsPerDay, engagementRate) ==
    RMul(viewsPerDay, RAdd(Num(1), RMul(Num(4), engagementRate)))

\* case 'wildcard': occurrences is channelOccurrences[channelId] after the increment
DiversityFactor(occurrences) ==
    RDiv(Num(1), RAdd(Num(1), RMul(Num(occurrences - 1), R(6, 10))))

WildcardScore(viewsPerDay, engagementRate, diversityFactor) ==
    RMul(RMul(viewsPerDay, RAdd(Num(1), RMul(Num(3), engagementRate))), diversityFactor)

\* case 'forYou' / default
ForYouRelevance(isLocal, ageHours, likeRate, commentRate) ==
    MathMin(
        RAdd(RAdd(RAdd(RAdd(R(5, 10),
            IF isLocal THEN R(3, 10) ELSE Num(0)),
            IF RLt(ageHours, Num(48)) THEN R(2, 10) ELSE Num(0)),
            IF RLt(R(5, 100), likeRate) THEN R(1, 10) ELSE Num(0)),
            IF RLt(R(5, 1000), commentRate) THEN R(1, 10) ELSE Num(0)),
        Num(1))

ForYouScore(viewsPerDay, likeRate, commentRate, aiRelevanceScore) ==
    RMul(RMul(viewsPerDay,
              RAdd(RAdd(Num(1), RMul(Num(3), likeRate)), RMul(Num(10), commentRate))),
         RAdd(Num(1), aiRelevanceScore))

\* channelOccurrences[channelId] || 0
Occurrences(channelOccurrences, channelId) ==
    IF channelId \in DOMAIN channelOccurrences THEN channelOccurrences[channelId] ELSE 0

\* the object the map callback of Step 4 returns for one statistics item;
\* channelOccurrences is the counter map before this item
FeedVideo(item, mode, nowMs, regionCode, chData, channelOccurrences) ==
    LET ageHours == AgeHours(nowMs, item.publishedAt)
        ageDays == AgeDays(ageHours)
        views == item.viewCount
        likes == item.likeCount
        comments == item.commentCount
        viewsPerHour == RDiv(Num(views), ageHours)
        viewsPerDay == RDiv(Num(views), ageDays)
        likeRate == LikeRate(views, likes)
        commentRate == CommentRate(views, comments)
        engagementRate == EngagementRate(views, likes, comments)
        channelCountry == ChannelCountry(chData, item.channelId)
        subscriberCount == SubscriberCount(chData, item.channelId)
        isLocal == channelCountry = regionCode
        occurrences == Occurrences(channelOccurrences, item.channelId) + 1
        freshnessBoost ==
            CASE mode = "trending" -> TrendingBoost(ageHours)
              [] mode = "weekMovers" -> WeekMoversBoost(ageDays)
              [] OTHER -> Num(1)
        diversityFactor ==
            IF mode = "wildcard" THEN DiversityFactor(occurrences) ELSE Num(1)
        aiRelevanceScore ==
            IF mode \in {"trending", "weekMovers", "risingSmall", "wildcard"}
            THEN Num(0)
            ELSE ForYouRelevance(isLocal, ageHours, likeRate, commentRate)
        score ==
            CASE mode = "trending" ->
                    TrendingScore(viewsPerHour, engagementRate, freshnessBoost)
              [] mode = "weekMovers" ->
                    WeekMoversScore(viewsPerDay, engagementRate, freshnessBoost)
              [] mode = "risingSmall" ->
                    RisingSmallScore(viewsPerDay, engagementRate)
              [] mode = "wildcard" ->
                    WildcardScore(viewsPerDay, engagementRate, diversityFactor)
              [] OTHER ->
                    ForYouScore(viewsPerDay, likeRate, commentRate, aiRelevanceScore)
    IN  [id |-> item.id,
         channelId |-> item.channelId,
         channelCountry |-> channelCountry,
         subscriberCount |-> subscriberCount,
         publishedAt |-> item.publishedAt,
         views |-> views,
         likes |-> likes,
         comments |-> comments,
         score |-> score,
         freshnessBoost |-> freshnessBoost,
         diversityFactor |-> diversityFactor,
         aiRelevanceScore |-> aiRelevanceScore,
         rawAgeHours |-> ageHours,
         rawAgeDays |-> ageDays,
         ageHours |-> R(MathRound(RMul(ageHours, Num(10))), 10),
         ageDays |-> R(MathRound(RMul(ageDays, Num(10))), 10),
         velocityScore |-> MathRound(score),
         isLocal |-> isLocal]

\* channelOccurrences after the callback ran for one item (only 'wildcard' counts)
CountOccurrence(channelOccurrences, mode, channelId) ==
    IF mode = "wildcard"
    THEN [c \in DOMAIN channelOccurrences \cup {channelId} |->
            IF c = channelId THEN Occurrences(channelOccurrences, c) + 1
            ELSE channelOccurrences[c]]
    ELSE channelOccurrences

\* statsResponse.data.items.map(item => ...): items left to right, sharing the counter
RECURSIVE FeedVideosFrom(_, _, _, _, _, _, _)
FeedVideosFrom(stats, i, mode, nowMs, regionCode, chData, channelOccurrences) ==
    IF i > Len(stats) THEN <<>>
    ELSE <<FeedVideo(stats[i], mode, nowMs, regionCode, chData, channelOccurrences)>>
         \o FeedVideosFrom(stats, i + 1, mode, nowMs, regionCode, chData,
                           CountOccurrence(channelOccurrences, mode, stats[i].channelId))

EmptyMap == [c \in {} |-> 0]

FeedVideos(stats, mode, nowMs, regionCode, chData) ==
    FeedVideosFrom(stats, 1, mode, nowMs, regionCode, chData, EmptyMap)

(***************************************************************************)
(* Scoring: api/youtube/advanced-search.js, Step 6.                        *)
(***************************************************************************)
\* mustInclude keywords found in the title, 0.1 each, plus 0.1 if local, capped at 0.5
KeywordRelevance(keywordHits, isLocal) ==
    MathMin(RAdd(R(keywordHits, 10), IF isLocal THEN R(1, 10) ELSE Num(0)), R(5, 10))

\* const finalScore = score * 0.8 + score * aiRelevanceScore * 0.2
BlendedScore(score, aiRelevanceScore) ==
    RAdd(RMul(score, R(8, 10)), RMul(RMul(score, aiRelevanceScore), R(2, 10)))

AdvancedVideo(item, effectiveMode, nowMs, userCountry, chData, mustInclude) ==
    LET ageHours == AgeHours(nowMs, item.publishedAt)
        ageDays == AgeDays(ageHours)
        views == item.viewCount
        likes == item.likeCount
        comments == item.commentCount
        viewsPerHour == RDiv(Num(views), ageHours)
        viewsPerDay == RDiv(Num(views), ageDays)
        engagementRate == EngagementRate(views, likes, comments)
        channelCountry == ChannelCountry(chData, item.channelId)
        subscriberCount == SubscriberCount(chData, item.channelId)
        isLocal == channelCountry = userCountry
        freshnessBoost ==
            IF effectiveMode = "trending" THEN TrendingBoost(ageHours)
            ELSE WeekMoversBoost(ageDays)
        score ==
            IF effectiveMode = "trending"
            THEN TrendingScore(viewsPerHour, engagementRate, freshnessBoost)
            ELSE WeekMoversScore(viewsPerDay, engagementRate, freshnessBoost)
        aiRelevanceScore ==
            KeywordRelevance(
                Cardinality({k \in 1..Len(mustInclude) : mustInclude[k] \in item.titleWords}),
                isLocal)
        finalScore == BlendedScore(score, aiRelevanceScore)
    IN  [id |-> item.id,
         channelId |-> item.channelId,
         channelCountry |-> channelCountry,
         subscriberCount |-> subscriberCount,
         publishedAt |-> item.publishedAt,
         views |-> views,
         likes |-> likes,
         comments |-> comments,
         score |-> finalScore,
         baseScore |-> score,
         freshnessBoost |-> freshnessBoost,
         diversityFactor |-> Num(1),
         aiRelevanceScore |-> aiRelevanceScore,
         rawAgeHours |-> ageHours,
         rawAgeDays |-> ageDays,
         ageHours |-> R(MathRound(RMul(ageHours, Num(10))), 10),
         ageDays |-> R(MathRound(RMul(ageDays, Num(10))), 10),
         velocityScore |-> MathRound(finalScore),
         isLocal |-> isLocal]

AdvancedVideos(stats, effectiveMode, nowMs, userCountry, chData, mustInclude) ==
    [i \in 1..Len(stats) |->
        AdvancedVideo(stats[i], effectiveMode, nowMs, userCountry, chData, mustInclude)]

(***************************************************************************)
(* Scoring: api/youtube/search.js, computeTrendScore.                      *)
(***************************************************************************)
MsPerDay == 1000 * 60 * 60 * 24

computeTrendScore(video, nowMs) ==
    IF ~video.hasPublishedAt \/ video.views = 0 THEN 0
    ELSE LET daysSincePublish ==
                 MathMax(R(nowMs - video.publishedAt, MsPerDay), Num(1))
             velocity == RDiv(Num(video.views), daysSincePublish)
             velocityNormalized ==
                 RMul(MathMin(RDiv(velocity, Num(10000)), Num(1)), Num(50))
             engagementRate == R(video.likes + video.comments, video.views)
             engagementNormalized ==
                 RMul(MathMin(RMul(engagementRate, Num(10)), Num(1)), Num(30))
             recencyScore ==
                 IF RLe(daysSincePublish, Num(7)) THEN 20
                 ELSE IF RLe(daysSincePublish, Num(14)) THEN 15
                 ELSE 10
         IN  MathRound(RAdd(RAdd(velocityNormalized, engagementNormalized),
                            Num(recencyScore)))

(***************************************************************************)
(* shuffleWithSeed (api/youtube/feed.js).  A JavaScript array of length n  *)
(* is a function on -n..n-1: the indices 0..n-1 are its elements, and a    *)
(* negative index is an ordinary property of the array object (it is read  *)
(* and written, but it is no element).  A slot never written is undefined. *)
(***************************************************************************)
LcgModulus == 233280

\* an undefined slot of an array of videos
Hole == [id |-> Undefined]

\* JavaScript x % n for n > 0: the sign of the result is that of the dividend
JsRem(x, n) == IF x >= 0 THEN x % n ELSE -((-x) % n)

\* (seed * 9301 + 49297) % 233280.  The product is reduced modulo 233280 in
\* two halves (9301 = 4651 + 4650) so that no intermediate value leaves 32
\* bits; seed * 9301 + 49297 is negative exactly when seed < -5.
NextSeed(seed) ==
    LET s == seed % LcgModulus
        r == (((s * 4651) % LcgModulus) + ((s * 4650) % LcgModulus) + 49297) % LcgModulus
    IN  IF seed < -5 THEN (IF r = 0 THEN 0 ELSE r - LcgModulus) ELSE r

\* i = Math.floor((seed / 233280) * m--), with seed already advanced
DrawIndex(seed, m) == MathFloor(RMul(R(seed, LcgModulus), Num(m)))

\* a sequence as a JavaScript array, and back (the elements only)
ToArray(seq) ==
    [k \in (0 - Len(seq))..(Len(seq) - 1) |-> IF k >= 0 THEN seq[k + 1] ELSE Hole]

FromArray(array, n) == [k \in 1..n |-> array[k - 1]]

\* one pass of the while loop: st = [array, m, seed], m > 0
ShuffleIteration(st) ==
    LET seed == NextSeed(st.seed)
        i == DrawIndex(seed, st.m)
        m == st.m - 1
        t == st.array[m]
        moved == [st.array EXCEPT ![m] = st.array[i]]
    IN  [array |-> [moved EXCEPT ![i] = t], m |-> m, seed |-> seed]

RECURSIVE ShuffleLoop(_)
ShuffleLoop(st) == IF st.m = 0 THEN st ELSE ShuffleLoop(ShuffleIteration(st))

shuffleWithSeed(seq, seed) ==
    FromArray(ShuffleLoop([array |-> ToArray(seq), m |-> Len(seq), seed |-> seed]).array,
              Len(seq))

\* mutant: a video goes before the videos of equal score already placed
RECURSIVE InsertByScoreBeforeTies(_, _)
InsertByScoreBeforeTies(sorted, v) ==
    IF sorted = <<>> THEN <<v>>
    ELSE IF Head(sorted).velocityScore > v.velocityScore
         THEN <<Head(sorted)>> \o InsertByScoreBeforeTies(Tail(sorted), v)
         ELSE <<v>> \o sorted

\* videos.sort((a, b) => b.velocityScore - a.velocityScore): stable, descending
RECURSIVE InsertByScore(_, _)
InsertByScore(sorted, v) ==
    IF sorted = <<>> THEN <<v>>
    ELSE IF Head(sorted).velocityScore >= v.velocityScore
         THEN <<Head(sorted)>> \o InsertByScore(Tail(sorted), v)
         ELSE <<v>> \o sorted

RECURSIVE SortByScoreFrom(_, _, _)
SortByScoreFrom(seq, i, sorted) ==
    IF i > Len(seq) THEN sorted
    ELSE SortByScoreFrom(seq, i + 1, InsertByScore(sorted, seq[i]))

SortByScore(seq) == SortByScoreFrom(seq, 1, <<>>)

(***************************************************************************)
(* The requests, and what the video catalog can answer.                    *)
(***************************************************************************)
\* DISCOVERY_MODES of feed.js, and a mode name it does not know
FeedModes == {"forYou", "trending", "weekMovers", "risingSmall", "wildcard", "unknown"}

\* x-vercel-ip-country: an 'en' country, an ES_COUNTRIES one, the MIXED_COUNTRIES one
Countries == {"US", "MX", "PR"}

\* the seed parameter: absent, or the decimal text of an integer
NoSeed == [given |-> FALSE, value |-> 0]

Seeds == {NoSeed} \cup {[given |-> TRUE, value |-> n] : n \in {42, -100}}

\* DISCOVERY_MODES.risingSmall.maxSubs
MaxSubs == 200000

\* allItems.slice(0, 50)
StatsCap == 50

\* queries.slice(0, 5)
MaxQueries == 5

NowMs == 1000000000

\* search items: a video id (or none), and the branch and position that produced it
SearchItem(videoId, branch, pos) == [videoId |-> videoId, branch |-> branch, pos |-> pos]

\* what one search call can answer: video ids (or an item without one) in the
\* order returned, and a continuation token (or none)
SearchAnswers ==
    { [ids |-> <<>>, nextPageToken |-> Undefined],
      [ids |-> <<"v1">>, nextPageToken |-> "tok1"],
      [ids |-> <<"v1", "v2">>, nextPageToken |-> Undefined],
      [ids |-> <<"v2", "v3">>, nextPageToken |-> "tok2"],
      [ids |-> <<"v3", Undefined, "v3">>, nextPageToken |-> Undefined] }

\* videos.list: one statistics item per video
StatTables ==
    { [v \in {"v1", "v2", "v3"} |->
         CASE v = "v1" -> [id |-> v, channelId |-> "c1", titleWords |-> {"baby"},
                           publishedAt |-> NowMs - 2 * MsPerHour,
                           viewCount |-> 1000, likeCount |-> 80, commentCount |-> 10]
           [] v = "v2" -> [id |-> v, channelId |-> "c1", titleWords |-> {},
                           publishedAt |-> NowMs + MsPerHour,
                           viewCount |-> 0, likeCount |-> 3, commentCount |-> 0]
           [] v = "v3" -> [id |-> v, channelId |-> "c2", titleWords |-> {"baby", "vlog"},
                           publishedAt |-> NowMs - 72 * MsPerHour,
                           viewCount |-> 90000, likeCount |-> 100, commentCount |-> 0]] }

\* channels.list: country and subscriberCount per channel
ChannelTables ==
    { [c \in {"c1", "c2"} |->
         IF c = "c1" THEN [country |-> "US", subscriberCount |-> 1500]
         ELSE [country |-> Null, subscriberCount |-> 0]],
      [c \in {"c1", "c2"} |->
         IF c = "c1" THEN [country |-> "PR", subscriberCount |-> MaxSubs]
         ELSE [country |-> "MX", subscriberCount |-> MaxSubs - 1]] }

\* what /api/ai/search-plan can answer
PlannerPlans ==
    { [queries |-> <<"q", "q vlog">>, suggestedWindowDays |-> 1,
       suggestedMode |-> "trending", mustInclude |-> <<"baby", "vlog">>,
       languageHint |-> Null],
      [queries |-> <<"q", "q vlog", "q 2024">>, suggestedWindowDays |-> 7,
       suggestedMode |-> "weekMovers", mustInclude |-> <<>>,
       languageHint |-> "es"] }

NoPlan == [queries |-> <<>>, suggestedWindowDays |-> 0, suggestedMode |-> Null,
           mustInclude |-> <<>>, languageHint |-> Null]

NoResponse == [status |-> 0, items |-> <<>>, nextPageToken |-> Null]

Pending == [state |-> "pending", items |-> <<>>, nextPageToken |-> Undefined]

\* feed.js: languageMode from the caller's country
LanguageMode(userCountry) ==
    IF userCountry = "PR" THEN "mixed"
    ELSE IF userCountry = "MX" THEN "es"
    ELSE "en"

\* the search calls a request issues, in order
FeedBranches(languageMode) ==
    IF languageMode = "mixed" THEN <<"en", "es">> ELSE <<languageMode>>

\* x || y for a token
OrElse(x, y) == IF x = Undefined \/ x = Null THEN y ELSE x

\* Merge and dedupe: the first occurrence of each video id, in order of first sight
RECURSIVE DedupeFrom(_, _, _, _)
DedupeFrom(allItems, i, seen, kept) ==
    IF i > Len(allItems) THEN kept
    ELSE LET id == allItems[i].videoId
         IN  IF id = Undefined \/ id \in seen
             THEN DedupeFrom(allItems, i + 1, seen, kept)
             ELSE DedupeFrom(allItems, i + 1, seen \cup {id}, Append(kept, allItems[i]))

\* seq.filter(item => item.id.videoId)
WithVideoId(seq) == SelectSeq(seq, LAMBDA item : item.videoId # Undefined)

\* mutant: seen is never added to, so nothing is recognised as a duplicate
DedupeWithoutSeen(allItems) == WithVideoId(allItems)

Dedupe(allItems) == DedupeFrom(allItems, 1, {}, <<>>)

\* [...results[1].items, ...results[2].items, ...]
RECURSIVE ConcatFrom(_, _)
ConcatFrom(results, b) ==
    IF b > Len(results) THEN <<>> ELSE results[b].items \o ConcatFrom(results, b + 1)

Concat(results) == ConcatFrom(results, 1)

\* seq.slice(0, n)
Slice(seq, n) == SubSeq(seq, 1, IF Len(seq) < n THEN Len(seq) ELSE n)

(***************************************************************************)
(* The keyword fallback planner (generateFallbackPlan).  A string is the   *)
(* sequence of its words; the words of a query are separated by one space. *)
(***************************************************************************)
\* the words a raw query is made of
Words == {"viral", "trending", "today", "spanish", "small", "baby", "vlog", "tv",
          "family"}

\* String.prototype.length of a word
WordLength(w) ==
    CASE w = "viral" -> 5 [] w = "trending" -> 8 [] w = "today" -> 5
      [] w = "spanish" -> 7 [] w = "small" -> 5 [] w = "baby" -> 4
      [] w = "vlog" -> 4 [] w = "tv" -> 2 [] OTHER -> 6

RECURSIVE LengthFrom(_, _)
LengthFrom(str, i) ==
    IF i > Len(str) THEN 0
    ELSE WordLength(str[i]) + (IF i < Len(str) THEN 1 ELSE 0) + LengthFrom(str, i + 1)

\* String.prototype.length of a string
StringLength(str) == LengthFrom(str, 1)

\* the regular expressions, as the phrases of their alternatives, in the
\* order the expression tries them
TimePattern24h == << <<"today">>, <<"24h">>, <<"24", "hours">>, <<"last", "day">> >>
TimePattern7d ==
    << <<"this", "week">>, <<"last", "week">>, <<"7", "days">>, <<"week">> >>
TimePattern30d ==
    << <<"this", "month">>, <<"last", "month">>, <<"30", "days">>, <<"month">> >>
LanguagePatternEs ==
    << <<"spanish">>, <<"español">>, <<"espanol">>, <<"latino">>, <<"latina">>,
       <<"mexico">>, <<"spain">> >>
LanguagePatternEn == << <<"english">>, <<"american">>, <<"british">> >>
ModeHintTrending ==
    << <<"trending">>, <<"viral">>, <<"blowing", "up">>, <<"exploding">> >>
ModeHintRisingSmall ==
    << <<"small", "channel">>, <<"small", "creator">>, <<"small">>, <<"underrated">>,
       <<"hidden", "gem">>, <<"rising">> >>
ModeHintWildcard == << <<"random">>, <<"discover">>, <<"surprise">>, <<"mix">> >>

\* the phrase stands in str at word i
PhraseAt(str, i, phrase) ==
    /\ i + Len(phrase) - 1 <= Len(str)
    /\ \A k \in 1..Len(phrase) : str[i + k - 1] = phrase[k]

\* the alternatives of the pattern that match at word i
AlternativesAt(str, i, pattern) ==
    {a \in 1..Len(pattern) : PhraseAt(str, i, pattern[a])}

\* the words at which the pattern matches
MatchesOf(str, pattern) ==
    {i \in 1..Len(str) : AlternativesAt(str, i, pattern) # {}}

Least(S) == CHOOSE x \in S : \A y \in S : x <= y

\* RegExp.prototype.test
Test(pattern, str) == MatchesOf(str, pattern) # {}

\* str.replace(pattern, ''): the expression has no g flag, so only the leftmost
\* match is replaced, by the first alternative that matches there
Replace(str, pattern) ==
    IF ~Test(pattern, str) THEN str
    ELSE LET i == Least(MatchesOf(str, pattern))
             a == Least(AlternativesAt(str, i, pattern))
             n == Len(pattern[a])
         IN  SubSeq(str, 1, i - 1) \o SubSeq(str, i + n, Len(str))

\* TOPIC_EXPANSIONS, in the order of Object.entries
TopicExpansions ==
    << [topic |-> "family",
        expansions |-> << <<"family", "vlog">>, <<"family", "content">>,
                          <<"family", "youtube">> >>],
       [topic |-> "baby",
        expansions |-> << <<"baby", "vlog">>, <<"newborn">>, <<"infant", "content">>,
                          <<"baby", "milestones">> >>],
       [topic |-> "newborn",
        expansions |-> << <<"newborn", "vlog">>, <<"new", "baby">>,
                          <<"baby", "first", "week">> >>],
       [topic |-> "comedy",
        expansions |-> << <<"comedy", "skit">>, <<"funny", "video">>,
                          <<"humor", "content">> >>],
       [topic |-> "prank",
        expansions |-> << <<"prank", "video">>, <<"prank", "reaction">>,
                          <<"funny", "prank">> >>],
       [topic |-> "couple",
        expansions |-> << <<"couples", "vlog">>, <<"relationship", "content">>,
                          <<"couple", "goals">> >>],
       [topic |-> "tech",
        expansions |-> << <<"tech", "review">>, <<"technology", "video">>,
                          <<"gadget", "review">> >>] >>

\* queryLower.includes(topic): no word of Words holds a topic as a proper part
IncludesTopic(str, topic) == \E i \in 1..Len(str) : str[i] = topic

\* queries.push(exp) unless queries.includes(exp), for each expansion in turn
RECURSIVE PushExpansions(_, _, _)
PushExpansions(queries, expansions, k) ==
    IF k > Len(expansions) THEN queries
    ELSE PushExpansions(
            IF \E j \in 1..Len(queries) : queries[j] = expansions[k] THEN queries
            ELSE Append(queries, expansions[k]),
            expansions, k + 1)

RECURSIVE ExpandTopics(_, _, _)
ExpandTopics(queries, str, t) ==
    IF t > Len(TopicExpansions) THEN queries
    ELSE ExpandTopics(
            IF IncludesTopic(str, TopicExpansions[t].topic)
            THEN PushExpansions(queries, TopicExpansions[t].expansions, 1)
            ELSE queries,
            str, t + 1)

\* mutant: the time-window words are left in the query
CleanQueryKeepingTime(q) ==
    Replace(Replace(Replace(Replace(Replace(q,
        LanguagePatternEs), LanguagePatternEn), ModeHintTrending), ModeHintRisingSmall),
        ModeHintWildcard)

\* the chain of replace calls of lines 181-191; splitting into words does the
\* whitespace collapse and the trim
CleanQuery(q) ==
    Replace(Replace(Replace(Replace(Replace(Replace(Replace(Replace(q,
        TimePattern24h), TimePattern7d), TimePattern30d), LanguagePatternEs),
        LanguagePatternEn), ModeHintTrending), ModeHintRisingSmall), ModeHintWildcard)

\* the plan returned, and with it the clean query that queries[0] holds
generateFallbackPlan(q) ==
    LET suggestedWindowDays ==
            IF Test(TimePattern24h, q) THEN 1
            ELSE IF Test(TimePattern30d, q) THEN 30 ELSE 7
        languageHint ==
            IF Test(LanguagePatternEs, q) THEN "es"
            ELSE IF Test(LanguagePatternEn, q) THEN "en" ELSE Null
        suggestedMode ==
            IF Test(ModeHintRisingSmall, q) THEN "small"
            ELSE IF Test(ModeHintWildcard, q) THEN "wildcard"
            ELSE IF Test(ModeHintTrending, q) THEN "24h"
            ELSE IF suggestedWindowDays = 1 THEN "24h" ELSE "7d"
        cleanQuery == CleanQuery(q)
        expanded == ExpandTopics(<<cleanQuery>>, q, 1)
        queries ==
            IF StringLength(cleanQuery) > 3
            THEN expanded \o <<cleanQuery \o <<"vlog">>, cleanQuery \o <<"2024">> >>
            ELSE expanded
    IN  [suggestedMode |-> suggestedMode,
         suggestedWindowDays |-> suggestedWindowDays,
         cleanQuery |-> cleanQuery,
         queries |-> Slice(queries, MaxQueries),
         mustInclude |-> Slice(SelectSeq(cleanQuery, LAMBDA w : WordLength(w) > 3), 3),
         languageHint |-> languageHint]

(***************************************************************************)
(* The request handlers of feed.js and advanced-search.js.                 *)
(***************************************************************************)
\* the ids a statistics call is asked for, and its answer: one item per distinct id
RECURSIVE DistinctFrom(_, _, _)
DistinctFrom(ids, i, kept) ==
    IF i > Len(ids) THEN kept
    ELSE IF \E k \in 1..Len(kept) : kept[k] = ids[i]
         THEN DistinctFrom(ids, i + 1, kept)
         ELSE DistinctFrom(ids, i + 1, Append(kept, ids[i]))

VideoIdsOf(seq) == [k \in 1..Len(seq) |-> seq[k].videoId]

\* the ids the statistics call is asked for (it answers the ids that name a video)
RequestedIds(handler, found) ==
    IF handler \in {"feed", "search"} THEN VideoIdsOf(WithVideoId(found))
    ELSE VideoIdsOf(Slice(found, StatsCap))

\* if (!videoIds), if (allItems.length === 0): search.js joins the ids without
\* filtering them, and the join of one missing id is the empty string
NoVideoIds(handler, found) ==
    IF handler = "search"
    THEN Len(found) = 0 \/ (Len(found) = 1 /\ found[1].videoId = Undefined)
    ELSE RequestedIds(handler, found) = <<>>

StatisticsFor(ids, table) ==
    LET distinct == DistinctFrom(ids, 1, <<>>)
    IN  [k \in 1..Len(distinct) |-> table[distinct[k]]]

\* [...new Set(statsResponse.data.items.map(i => i.snippet.channelId))]
ChannelIdsOf(stats) == {stats[k].channelId : k \in 1..Len(stats)}

\* mutant: the ceiling is compared with <= instead of <
RisingSmallFilterInclusive(scored, mode) ==
    IF mode = "risingSmall"
    THEN SelectSeq(scored,
                   LAMBDA v : v.subscriberCount > 0 /\ v.subscriberCount <= MaxSubs)
    ELSE scored

\* mutant: the filter is applied in every mode
RisingSmallFilterEveryMode(scored, mode) ==
    SelectSeq(scored, LAMBDA v : v.subscriberCount > 0 /\ v.subscriberCount < MaxSubs)

\* Step 5 of feed.js: the risingSmall filter
RisingSmallFilter(scored, mode) ==
    IF mode = "risingSmall"
    THEN SelectSeq(scored,
                   LAMBDA v : v.subscriberCount > 0 /\ v.subscriberCount < MaxSubs)
    ELSE scored

\* videos.sort((a, b) => b.trendScore - a.trendScore): stable, descending
RECURSIVE InsertByTrendScore(_, _)
InsertByTrendScore(sorted, v) ==
    IF sorted = <<>> THEN <<v>>
    ELSE IF Head(sorted).trendScore >= v.trendScore
         THEN <<Head(sorted)>> \o InsertByTrendScore(Tail(sorted), v)
         ELSE <<v>> \o sorted

RECURSIVE SortByTrendScoreFrom(_, _, _)
SortByTrendScoreFrom(seq, i, sorted) ==
    IF i > Len(seq) THEN sorted
    ELSE SortByTrendScoreFrom(seq, i + 1, InsertByTrendScore(sorted, seq[i]))

\* Steps 3 and 4 of search.js
BasicItems(stats, nowMs) ==
    SortByTrendScoreFrom(
        [k \in 1..Len(stats) |->
            LET video == [id |-> stats[k].id, publishedAt |-> stats[k].publishedAt,
                          hasPublishedAt |-> TRUE, views |-> stats[k].viewCount,
                          likes |-> stats[k].likeCount, comments |-> stats[k].commentCount]
            IN  [id |-> video.id, publishedAt |-> video.publishedAt,
                 views |-> video.views, likes |-> video.likes,
                 comments |-> video.comments,
                 trendScore |-> computeTrendScore(video, nowMs)]],
        1, <<>>)

\* Steps 4 to 6 of feed.js and the optional shuffle: the items of the response
FeedItems(stats, mode, seed, nowMs, regionCode, chData) ==
    LET scored == FeedVideos(stats, mode, nowMs, regionCode, chData)
        sorted == SortByScore(RisingSmallFilter(scored, mode))
    IN  IF seed.given THEN shuffleWithSeed(sorted, seed.value) ELSE sorted

\* Step 6 of advanced-search.js and the sort
AdvancedItems(stats, plan, effectiveMode, nowMs, userCountry, chData) ==
    SortByScore(AdvancedVideos(stats, effectiveMode, nowMs, userCountry, chData,
                               plan.mustInclude))

\* searchPlan.suggestedMode || mode
EffectiveMode == OrElse(searchPlan.suggestedMode, req.mode)

ErrorResponse == [status |-> 500, items |-> <<>>, nextPageToken |-> Null]

AllSearchesDone == \A b \in DOMAIN searchResults : searchResults[b].state = "done"

NoProbe == [kind |-> "none"]

\* getSessionLearning() when nothing is stored
NoSession ==
    [hiddenVideoIds |-> <<>>, blockedChannelIds |-> <<>>,
     channelNotInterestedCount |-> EmptyMap, themeDislikes |-> <<>>,
     savedVideoIds |-> <<>>, likedThemes |-> <<>>]

NotFiltering == [active |-> FALSE]

\* the feed page was never rendered
NoPage == [rendered |-> FALSE]

\* the handlers that need the q parameter: advanced-search.js, search.js and the
\* search plan
QueryHandlers == {"advanced", "search", "plan"}

\* the raw queries sent to the search plan
PlanQueries == {<<"viral">>, <<"viral", "baby", "vlog", "today">>}

\* the q of an advanced search: one with a trending hint and one without
AdvancedQueries == {<<"viral", "tv">>, <<"tv">>}

\* what the search plan endpoint answers for q: the model's plan, or the keyword
\* planner's when there is no key or the model failed
PlansFor(q) == PlannerPlans \cup {generateFallbackPlan(q)}

\* res.status(400).json({ error: 'Query parameter "q" is required' })
ClientErrorResponse == [status |-> 400, items |-> <<>>, nextPageToken |-> Null]

\* the parts of the state a specification does not use stay as they are here
ScoreIdle == probe = NoProbe
ShuffleIdle == run = <<>>
ClientIdle == session = NoSession /\ filtered = NotFiltering
PageIdle == page = NoPage

Init ==
    /\ PageIdle
    /\ ScoreIdle
    /\ ShuffleIdle
    /\ ClientIdle
    /\ pc = "received"
    /\ \/ \E handler \in {"feed", "advanced"}, userCountry \in Countries :
            \E mode \in (IF handler = "feed" THEN FeedModes
                          ELSE {"weekMovers", "trending"}),
               seed \in (IF handler = "feed" THEN Seeds ELSE {NoSeed}),
               q \in (IF handler = "feed" THEN {"q"} ELSE AdvancedQueries) :
               req = [handler |-> handler, mode |-> mode, userCountry |-> userCountry,
                      seed |-> seed, q |-> q, windowDays |-> 7, hasQ |-> TRUE,
                      geminiKey |-> TRUE]
       \/ \E handler \in QueryHandlers, q \in PlanQueries, geminiKey \in BOOLEAN :
            /\ handler # "plan" => (q = <<"viral">> /\ geminiKey)
            /\ req = [handler |-> handler, mode |-> "weekMovers", userCountry |-> "US",
                      seed |-> NoSeed, q |-> q, windowDays |-> 7, hasQ |-> FALSE,
                      geminiKey |-> geminiKey]
       \/ \E handler \in {"search", "plan"}, q \in PlanQueries, geminiKey \in BOOLEAN :
            /\ handler # "plan" => (q = <<"viral">> /\ geminiKey)
            /\ req = [handler |-> handler, mode |-> "weekMovers", userCountry |-> "US",
                      seed |-> NoSeed, q |-> q, windowDays |-> 7, hasQ |-> TRUE,
                      geminiKey |-> geminiKey]
    /\ now = NowMs
    /\ searchPlan = NoPlan
    /\ searchResults = <<>>
    /\ items = <<>>
    /\ nextToken = Null
    /\ statsResponse = <<>>
    /\ channelData = EmptyMap
    /\ videos = <<>>
    /\ failed = {}
    /\ response = NoResponse

\* feed.js: everything up to the search calls
FeedStart ==
    /\ pc = "received"
    /\ req.handler = "feed"
    /\ searchResults' =
         [b \in 1..Len(FeedBranches(LanguageMode(req.userCountry))) |-> Pending]
    /\ pc' = "search"
    /\ UNCHANGED <<req, now, searchPlan, items, nextToken, statsResponse, channelData,
                   videos, failed, response, probe, run, session, filtered, page>>

\* a query-driven handler finds no q: if (!q) return res.status(400)
MissingQuery ==
    /\ pc = "received"
    /\ req.handler \in QueryHandlers
    /\ ~req.hasQ
    /\ response' = ClientErrorResponse
    /\ pc' = "done"
    /\ UNCHANGED <<req, now, searchPlan, searchResults, items, nextToken, statsResponse,
                   channelData, videos, failed, probe, run, session, filtered, page>>

\* mutant: the search plan is fetched without looking at q
AdvancedStartUnchecked ==
    /\ pc = "received"
    /\ req.handler = "advanced"
    /\ pc' = "plan"
    /\ UNCHANGED <<req, now, searchPlan, searchResults, items, nextToken, statsResponse,
                   channelData, videos, failed, response, probe, run, session, filtered, page>>

\* advanced-search.js: everything up to the fetch of the search plan
AdvancedStart ==
    /\ pc = "received"
    /\ req.handler = "advanced"
    /\ req.hasQ
    /\ pc' = "plan"
    /\ UNCHANGED <<req, now, searchPlan, searchResults, items, nextToken, statsResponse,
                   channelData, videos, failed, response, probe, run, session, filtered, page>>

\* advanced-search.js Step 1: the planner answered; the search calls are issued
PlanReceived ==
    /\ pc = "plan"
    /\ \E plan \in PlansFor(req.q) :
         /\ searchPlan' = plan
         /\ searchResults' = [b \in 1..Len(Slice(plan.queries, MaxQueries)) |-> Pending]
    /\ pc' = "search"
    /\ UNCHANGED <<req, now, items, nextToken, statsResponse, channelData,
                   videos, failed, response, probe, run, session, filtered, page>>

\* advanced-search.js Step 1: the planner failed or was not ok; the fallback plan
PlanFailed ==
    /\ pc = "plan"
    /\ searchPlan' = [queries |-> <<req.q>>, suggestedWindowDays |-> req.windowDays,
                      suggestedMode |-> req.mode, mustInclude |-> <<>>,
                      languageHint |-> Null]
    /\ searchResults' = [b \in 1..1 |-> Pending]
    /\ failed' = failed \cup {<<"planner", 0>>}
    /\ pc' = "search"
    /\ UNCHANGED <<req, now, items, nextToken, statsResponse, channelData,
                   videos, response, probe, run, session, filtered, page>>

\* search.js: everything up to the search call
BasicStart ==
    /\ pc = "received"
    /\ req.handler = "search"
    /\ req.hasQ
    /\ searchResults' = <<Pending>>
    /\ pc' = "search"
    /\ UNCHANGED <<req, now, searchPlan, items, nextToken, statsResponse, channelData,
                   videos, failed, response, probe, run, session, filtered, page>>

\* the search plan handler: with a GEMINI_API_KEY the model is called, without
\* one the keyword planner answers
PlanStart ==
    /\ pc = "received"
    /\ req.handler = "plan"
    /\ req.hasQ
    /\ IF req.geminiKey
       THEN /\ pc' = "gemini"
            /\ UNCHANGED <<searchPlan, response>>
       ELSE /\ searchPlan' = generateFallbackPlan(req.q)
            /\ response' = [status |-> 200, plan |-> searchPlan', source |-> "fallback"]
            /\ pc' = "done"
    /\ UNCHANGED <<req, now, searchResults, items, nextToken, statsResponse, channelData,
                   videos, failed, probe, run, session, filtered, page>>

\* callGemini returns a plan
GeminiReturned ==
    /\ pc = "gemini"
    /\ \E plan \in PlannerPlans :
         /\ searchPlan' = plan
         /\ response' = [status |-> 200, plan |-> plan, source |-> "gemini"]
    /\ pc' = "done"
    /\ UNCHANGED <<req, now, searchResults, items, nextToken, statsResponse, channelData,
                   videos, failed, probe, run, session, filtered, page>>

\* callGemini throws (or returns nothing): the keyword planner answers
GeminiFailed ==
    /\ pc = "gemini"
    /\ failed' = failed \cup {<<"gemini", 0>>}
    /\ searchPlan' = generateFallbackPlan(req.q)
    /\ response' = [status |-> 200, plan |-> searchPlan', source |-> "fallback"]
    /\ pc' = "done"
    /\ UNCHANGED <<req, now, searchResults, items, nextToken, statsResponse, channelData,
                   videos, probe, run, session, filtered, page>>

\* one search call returns
SearchReturned(b) ==
    /\ pc = "search"
    /\ b \in DOMAIN searchResults
    /\ searchResults[b].state = "pending"
    /\ \E answer \in SearchAnswers :
         searchResults' =
            [searchResults EXCEPT ![b] =
                [state |-> "done",
                 items |-> [k \in 1..Len(answer.ids) |-> SearchItem(answer.ids[k], b, k)],
                 nextPageToken |-> answer.nextPageToken]]
    /\ UNCHANGED <<pc, req, now, searchPlan, items, nextToken, statsResponse, channelData,
                   videos, failed, response, probe, run, session, filtered, page>>

\* mutant: no search call has a catch of its own
SearchFailedUncaught(b) ==
    /\ pc = "search"
    /\ b \in DOMAIN searchResults
    /\ searchResults[b].state = "pending"
    /\ failed' = failed \cup {<<"search", b>>}
    /\ response' = ErrorResponse
    /\ pc' = "done"
    /\ UNCHANGED <<req, now, searchPlan, searchResults, items, nextToken, statsResponse,
                   channelData, videos, probe, run, session, filtered, page>>

\* one search call rejects: caught per branch (mixed feed, advanced search), or
\* thrown to the handler's catch (single-language feed, search.js)
SearchFailed(b) ==
    /\ pc = "search"
    /\ b \in DOMAIN searchResults
    /\ searchResults[b].state = "pending"
    /\ failed' = failed \cup {<<"search", b>>}
    /\ IF \/ req.handler = "feed" /\ LanguageMode(req.userCountry) # "mixed"
          \/ req.handler = "search"
       THEN /\ response' = ErrorResponse
            /\ pc' = "done"
            /\ UNCHANGED searchResults
       ELSE /\ searchResults' =
                 [searchResults EXCEPT ![b] =
                     [state |-> "done", items |-> <<>>, nextPageToken |-> Undefined]]
            /\ UNCHANGED <<pc, response>>
    /\ UNCHANGED <<req, now, searchPlan, items, nextToken, statsResponse, channelData,
                   videos, probe, run, session, filtered, page>>

\* all search calls are settled: merge, dedupe, and either answer or ask for statistics
SearchJoined ==
    /\ pc = "search"
    /\ AllSearchesDone
    /\ LET found ==
              IF \/ req.handler = "feed" /\ LanguageMode(req.userCountry) # "mixed"
                 \/ req.handler = "search"
              THEN searchResults[1].items
              ELSE Dedupe(Concat(searchResults))
           token ==
              IF req.handler \in {"advanced", "search"} THEN Null
              ELSE IF LanguageMode(req.userCountry) = "mixed"
                   THEN OrElse(searchResults[1].nextPageToken,
                               OrElse(searchResults[2].nextPageToken, Null))
                   ELSE OrElse(searchResults[1].nextPageToken, Null)
       IN  /\ items' = found
           /\ nextToken' = token
           /\ IF NoVideoIds(req.handler, found)
              THEN /\ response' = [status |-> 200, items |-> <<>>, nextPageToken |-> Null]
                   /\ pc' = "done"
              ELSE /\ pc' = "stats"
                   /\ UNCHANGED response
    /\ UNCHANGED <<req, now, searchPlan, searchResults, statsResponse, channelData,
                   videos, failed, probe, run, session, filtered, page>>

\* search.js: the statistics call returns; trend scores, sort, res.json
BasicStatsReturned ==
    /\ pc = "stats"
    /\ req.handler = "search"
    /\ \E table \in StatTables :
         /\ statsResponse' = StatisticsFor(RequestedIds(req.handler, items), table)
         /\ videos' = BasicItems(statsResponse', now)
    /\ response' = [status |-> 200, items |-> videos', nextPageToken |-> Null]
    /\ pc' = "done"
    /\ UNCHANGED <<req, now, searchPlan, searchResults, items, nextToken, channelData,
                   failed, probe, run, session, filtered, page>>

\* the statistics call returns
StatsReturned ==
    /\ pc = "stats"
    /\ req.handler \in {"feed", "advanced"}
    /\ \E table \in StatTables :
         statsResponse' = StatisticsFor(RequestedIds(req.handler, items), table)
    /\ pc' = "channels"
    /\ UNCHANGED <<req, now, searchPlan, searchResults, items, nextToken, channelData,
                   videos, failed, response, probe, run, session, filtered, page>>

\* the statistics call rejects: the handler's catch answers 500
StatsFailed ==
    /\ pc = "stats"
    /\ failed' = failed \cup {<<"stats", 0>>}
    /\ response' = ErrorResponse
    /\ pc' = "done"
    /\ UNCHANGED <<req, now, searchPlan, searchResults, items, nextToken, statsResponse,
                   channelData, videos, probe, run, session, filtered, page>>

\* Steps 4 to 6 and res.json, with the channel data at hand
Respond(chData) ==
    LET scored ==
           IF req.handler = "feed"
           THEN FeedItems(statsResponse, req.mode, req.seed, now, req.userCountry, chData)
           ELSE AdvancedItems(statsResponse, searchPlan, EffectiveMode, now,
                              req.userCountry, chData)
    IN  /\ channelData' = chData
        /\ videos' = scored
        /\ response' = [status |-> 200, items |-> scored, nextPageToken |-> nextToken]
        /\ pc' = "done"

\* the channel lookup returns
ChannelsReturned ==
    /\ pc = "channels"
    /\ \E table \in ChannelTables :
         Respond([c \in ChannelIdsOf(statsResponse) |-> table[c]])
    /\ UNCHANGED <<req, now, searchPlan, searchResults, items, nextToken, statsResponse,
                   failed, probe, run, session, filtered, page>>

\* the channel lookup rejects: caught, channelData stays empty
ChannelsFailed ==
    /\ pc = "channels"
    /\ failed' = failed \cup {<<"channels", 0>>}
    /\ Respond(EmptyMap)
    /\ UNCHANGED <<req, now, searchPlan, searchResults, items, nextToken, statsResponse,
                   probe, run, session, filtered, page>>

Next ==
    \/ FeedStart
    \/ MissingQuery
    \/ AdvancedStart
    \/ BasicStart
    \/ PlanStart
    \/ GeminiReturned
    \/ GeminiFailed
    \/ BasicStatsReturned
    \/ PlanReceived
    \/ PlanFailed
    \/ \E b \in 1..MaxQueries : SearchReturned(b)
    \/ \E b \in 1..MaxQueries : SearchFailed(b)
    \/ SearchJoined
    \/ StatsReturned
    \/ StatsFailed
    \/ ChannelsReturned
    \/ ChannelsFailed

Spec == Init /\ [][Next]_vars

(***************************************************************************)
(* SpecScore: the scoring functions applied to pairs of videos that differ *)
(* only in their view count.                                               *)
(***************************************************************************)
HandlerIdle ==
    /\ pc = "idle"
    /\ req = [handler |-> "none", mode |-> "forYou", userCountry |-> "US",
              seed |-> NoSeed, q |-> "q", windowDays |-> 7, hasQ |-> TRUE,
              geminiKey |-> TRUE]
    /\ now = NowMs
    /\ searchPlan = NoPlan
    /\ searchResults = <<>>
    /\ items = <<>>
    /\ nextToken = Null
    /\ statsResponse = <<>>
    /\ channelData = EmptyMap
    /\ videos = <<>>
    /\ failed = {}
    /\ response = NoResponse

\* publishedAt: later than now, now, and 30 minutes to 15 days before now
PublishedAts ==
    {NowMs + MsPerHour, NowMs, NowMs - (MsPerHour \div 2), NowMs - 2 * MsPerHour,
     NowMs - 24 * MsPerHour, NowMs - 48 * MsPerHour, NowMs - 8 * MsPerDay,
     NowMs - 15 * MsPerDay}

ViewCounts == {0, 99, 100, 200, 10000}
LikeCounts == {0, 5, 10}
CommentCounts == {0, 1}

\* wildcard: how often the channel was seen before this video
MaxSeenBefore == 1

StatsItem(views, likes, comments, publishedAt) ==
    [id |-> "v1", channelId |-> "c1", titleWords |-> {"baby"},
     publishedAt |-> publishedAt,
     viewCount |-> views, likeCount |-> likes, commentCount |-> comments]

SeenBefore(n) == IF n = 0 THEN EmptyMap ELSE [c \in {"c1"} |-> n]

InitScore ==
    /\ PageIdle
    /\ probe = NoProbe
    /\ HandlerIdle
    /\ ShuffleIdle
    /\ ClientIdle

\* feed.js Step 4 on two statistics items that differ only in viewCount
ScoreFeedPair ==
    /\ probe.kind = "none"
    /\ \E mode \in FeedModes, publishedAt \in PublishedAts, table \in ChannelTables,
          low \in ViewCounts, high \in ViewCounts, likes \in LikeCounts,
          comments \in CommentCounts, seen \in 0..MaxSeenBefore :
         /\ low < high
         /\ seen > 0 => mode = "wildcard"
         /\ probe' =
              [kind |-> "feed", mode |-> mode,
               low |-> FeedVideo(StatsItem(low, likes, comments, publishedAt), mode,
                                 NowMs, "US", table, SeenBefore(seen)),
               high |-> FeedVideo(StatsItem(high, likes, comments, publishedAt), mode,
                                  NowMs, "US", table, SeenBefore(seen))]
    /\ UNCHANGED <<hvars, run, session, filtered, page>>

\* advanced-search.js Step 6 on two statistics items that differ only in viewCount
ScoreAdvancedPair ==
    /\ probe.kind = "none"
    /\ \E mode \in {"trending", "weekMovers"}, publishedAt \in PublishedAts,
          table \in ChannelTables, plan \in PlannerPlans,
          low \in ViewCounts, high \in ViewCounts, likes \in LikeCounts,
          comments \in CommentCounts :
         /\ low < high
         /\ probe' =
              [kind |-> "advanced", mode |-> mode,
               low |-> AdvancedVideo(StatsItem(low, likes, comments, publishedAt), mode,
                                     NowMs, "US", table, plan.mustInclude),
               high |-> AdvancedVideo(StatsItem(high, likes, comments, publishedAt), mode,
                                      NowMs, "US", table, plan.mustInclude)]
    /\ UNCHANGED <<hvars, run, session, filtered, page>>

\* search.js: video.trendScore = computeTrendScore(video)
\* hasPublishedAt: item.snippet.publishedAt is there
TrendVideo(views, likes, comments, publishedAt, hasPublishedAt) ==
    LET video == [publishedAt |-> publishedAt, hasPublishedAt |-> hasPublishedAt,
                  views |-> views, likes |-> likes, comments |-> comments]
    IN  [publishedAt |-> publishedAt, hasPublishedAt |-> hasPublishedAt,
         views |-> views, likes |-> likes, comments |-> comments,
         trendScore |-> computeTrendScore(video, NowMs)]

\* search.js Step 3 on two videos that differ only in views
ScoreTrendPair ==
    /\ probe.kind = "none"
    /\ \E publishedAt \in PublishedAts, low \in ViewCounts, high \in ViewCounts,
          likes \in LikeCounts, comments \in CommentCounts, dated \in BOOLEAN :
         /\ low < high
         /\ probe' =
              [kind |-> "basic", mode |-> "basic",
               low |-> TrendVideo(low, likes, comments, publishedAt, dated),
               high |-> TrendVideo(high, likes, comments, publishedAt, dated)]
    /\ UNCHANGED <<hvars, run, session, filtered, page>>

\* three statistics items with no likes and no comments: 100000 views at 2 hours,
\* 50000 views at 10 hours, 10000 views at 1 hour
RankedCandidates ==
    { [StatsItem(100000, 0, 0, NowMs - 2 * MsPerHour) EXCEPT !.id = "v1"],
      [StatsItem(50000, 0, 0, NowMs - 10 * MsPerHour) EXCEPT !.id = "v2"],
      [StatsItem(10000, 0, 0, NowMs - MsPerHour) EXCEPT !.id = "v3"] }

\* the orders in which the statistics call can return them
RankedOrders ==
    {order \in [1..3 -> RankedCandidates] :
        \A i, j \in 1..3 : i # j => order[i] # order[j]}

\* feed.js Steps 4 to 6 on the three items, without a seed
RankFeed ==
    /\ probe.kind = "none"
    /\ \E mode \in FeedModes, order \in RankedOrders,
          chData \in ChannelTables \cup {EmptyMap} :
         probe' = [kind |-> "ranking", mode |-> mode, stats |-> order,
                   items |-> FeedItems(order, mode, NoSeed, NowMs, "US", chData)]
    /\ UNCHANGED <<hvars, run, session, filtered, page>>

\* four statistics items: two of one channel with the same figures, two of
\* another channel without views
TiedCandidates ==
    { [StatsItem(1000, 10, 1, NowMs - 2 * MsPerHour) EXCEPT !.id = "v1"],
      [StatsItem(1000, 10, 1, NowMs - 2 * MsPerHour) EXCEPT !.id = "v2"],
      [StatsItem(0, 5, 0, NowMs - 2 * MsPerHour) EXCEPT !.id = "v3", !.channelId = "c2"],
      [StatsItem(0, 0, 0, NowMs - 24 * MsPerHour) EXCEPT !.id = "v4", !.channelId = "c2"] }

TiedOrders ==
    {order \in [1..4 -> TiedCandidates] :
        \A i, j \in 1..4 : i # j => order[i] # order[j]}

\* feed.js Steps 4 to 6 on the four items, without a seed
SortFeed ==
    /\ probe.kind = "none"
    /\ \E mode \in FeedModes, order \in TiedOrders,
          chData \in ChannelTables \cup {EmptyMap} :
         probe' = [kind |-> "sorted", mode |-> mode, stats |-> order,
                   items |-> FeedItems(order, mode, NoSeed, NowMs, "US", chData)]
    /\ UNCHANGED <<hvars, run, session, filtered, page>>

\* advanced-search.js Step 6 and the sort on the four items
SortAdvanced ==
    /\ probe.kind = "none"
    /\ \E mode \in {"trending", "weekMovers"}, order \in TiedOrders,
          chData \in ChannelTables \cup {EmptyMap}, plan \in PlannerPlans :
         probe' = [kind |-> "sorted", mode |-> mode, stats |-> order,
                   items |-> AdvancedItems(order, plan, mode, NowMs, "US", chData)]
    /\ UNCHANGED <<hvars, run, session, filtered, page>>

NextScore ==
    \/ ScoreFeedPair
    \/ ScoreAdvancedPair
    \/ ScoreTrendPair
    \/ RankFeed
    \/ SortFeed
    \/ SortAdvanced

SpecScore == InitScore /\ [][NextScore]_vars

(***************************************************************************)
(* SpecShuffle: two invocations of Step 6 of feed.js (the sort and the     *)
(* optional shuffleWithSeed) on the same videos with the same seed.        *)
(***************************************************************************)
ScoredVideo(id, velocityScore) == [id |-> id, velocityScore |-> velocityScore]

\* the scored videos handed to Step 6
ShuffleInputs ==
    { <<>>,
      <<ScoredVideo("v1", 5)>>,
      <<ScoredVideo("v1", 5), ScoredVideo("v2", 9)>>,
      <<ScoredVideo("v1", 5), ScoredVideo("v2", 5), ScoredVideo("v3", 7)>>,
      <<ScoredVideo("v1", 0), ScoredVideo("v2", 3), ScoredVideo("v3", 3),
        ScoredVideo("v4", 1)>> }

ShuffleSeeds ==
    {NoSeed} \cup {[given |-> TRUE, value |-> n] : n \in {0, 1, 42, 99991, -100}}

Invocations == {1, 2}

InitShuffle ==
    /\ PageIdle
    /\ ScoreIdle
    /\ HandlerIdle
    /\ ClientIdle
    /\ \E input \in ShuffleInputs, seed \in ShuffleSeeds :
          run = [r \in Invocations |->
                   [pc |-> "sort", input |-> input, videos |-> input,
                    seedParam |-> seed, array |-> ToArray(<<>>), m |-> 0, seed |-> 0]]

\* videos.sort(...); if (seed) shuffleWithSeed(videos, parseInt(seed, 10)) is entered
SortVideos(r) ==
    /\ run[r].pc = "sort"
    /\ LET sorted == SortByScore(run[r].videos)
       IN  run' = [run EXCEPT ![r] =
                     IF run[r].seedParam.given
                     THEN [@ EXCEPT !.pc = "shuffle", !.videos = sorted,
                                    !.array = ToArray(sorted), !.m = Len(sorted),
                                    !.seed = run[r].seedParam.value]
                     ELSE [@ EXCEPT !.pc = "done", !.videos = sorted]]
    /\ UNCHANGED <<hvars, probe, session, filtered, page>>

\* mutant: the index is drawn with Math.random() instead of from the seed
ShuffleStepRandom(r) ==
    /\ run[r].pc = "shuffle"
    /\ run[r].m > 0
    /\ \E i \in 0..(run[r].m - 1) :
         LET m == run[r].m - 1
             t == run[r].array[m]
             moved == [run[r].array EXCEPT ![m] = run[r].array[i]]
         IN  run' = [run EXCEPT ![r] =
                       [@ EXCEPT !.array = [moved EXCEPT ![i] = t], !.m = m]]
    /\ UNCHANGED <<hvars, probe, session, filtered, page>>

\* one pass of the while loop of shuffleWithSeed
ShuffleStep(r) ==
    /\ run[r].pc = "shuffle"
    /\ run[r].m > 0
    /\ LET st == ShuffleIteration([array |-> run[r].array, m |-> run[r].m,
                                   seed |-> run[r].seed])
       IN  run' = [run EXCEPT ![r] =
                     [@ EXCEPT !.array = st.array, !.m = st.m, !.seed = st.seed]]
    /\ UNCHANGED <<hvars, probe, session, filtered, page>>

\* while (m) ends: return array
ShuffleReturn(r) ==
    /\ run[r].pc = "shuffle"
    /\ run[r].m = 0
    /\ run' = [run EXCEPT ![r] =
                 [@ EXCEPT !.pc = "done",
                           !.videos = FromArray(run[r].array, Len(run[r].videos))]]
    /\ UNCHANGED <<hvars, probe, session, filtered, page>>

NextShuffle ==
    \/ \E r \in Invocations : SortVideos(r)
    \/ \E r \in Invocations : ShuffleStep(r)
    \/ \E r \in Invocations : ShuffleReturn(r)

SpecShuffle == InitShuffle /\ [][NextShuffle]_vars

(***************************************************************************)
(* SpecClient: the session-learning store of dashboard/recommendations.js  *)
(* and the filter pass loadFeed applies to a response.                     *)
(***************************************************************************)
VideoIds == {"v1", "v2", "v3"}
ChannelIds == {"c1", "c2"}
Themes == {"general", "music"}

\* channelNotInterestedCount is counted up to here
MaxStrikes == 3

\* array.includes(x)
Includes(seq, x) == \E k \in 1..Len(seq) : seq[k] = x

\* if (!array.includes(x)) array.push(x)
PushNew(seq, x) == IF Includes(seq, x) THEN seq ELSE Append(seq, x)

\* session.channelNotInterestedCount[channelId] || 0
NotInterestedCount(s, channelId) ==
    IF channelId \in DOMAIN s.channelNotInterestedCount
    THEN s.channelNotInterestedCount[channelId]
    ELSE 0

\* the session markNotInterested saves; channelId "" is a missing channel id
markNotInterested(s, videoId, channelId, theme) ==
    LET count == NotInterestedCount(s, channelId) + 1
        counted ==
            IF channelId = "" THEN s.channelNotInterestedCount
            ELSE [c \in DOMAIN s.channelNotInterestedCount \cup {channelId} |->
                    IF c = channelId THEN count ELSE s.channelNotInterestedCount[c]]
        blocked ==
            IF channelId # "" /\ count >= 2 /\ ~Includes(s.blockedChannelIds, channelId)
            THEN Append(s.blockedChannelIds, channelId)
            ELSE s.blockedChannelIds
        disliked ==
            IF theme # "" /\ theme # "general" THEN PushNew(s.themeDislikes, theme)
            ELSE s.themeDislikes
    IN  [s EXCEPT !.hiddenVideoIds = PushNew(s.hiddenVideoIds, videoId),
                  !.channelNotInterestedCount = counted,
                  !.blockedChannelIds = blocked,
                  !.themeDislikes = disliked]

\* the session saveVideo saves
saveVideo(s, videoId, theme) ==
    [s EXCEPT !.savedVideoIds = PushNew(s.savedVideoIds, videoId),
              !.likedThemes =
                  IF theme # "" /\ theme # "general" THEN PushNew(s.likedThemes, theme)
                  ELSE s.likedThemes]

\* mutant: the channel is taken off the list but its count is kept
unblockChannelKeepingCount(s, channelId) ==
    [s EXCEPT !.blockedChannelIds =
                  SelectSeq(s.blockedChannelIds, LAMBDA id : id # channelId)]

\* mutant: the channel is taken off the list and left with one strike
unblockChannelWithOneStrike(s, channelId) ==
    [s EXCEPT !.blockedChannelIds =
                  SelectSeq(s.blockedChannelIds, LAMBDA id : id # channelId),
              !.channelNotInterestedCount =
                  [c \in DOMAIN s.channelNotInterestedCount |->
                      IF c = channelId THEN 1 ELSE s.channelNotInterestedCount[c]]]

\* the session unblockChannel saves
unblockChannel(s, channelId) ==
    [s EXCEPT !.blockedChannelIds =
                  SelectSeq(s.blockedChannelIds, LAMBDA id : id # channelId),
              !.channelNotInterestedCount =
                  [c \in (DOMAIN s.channelNotInterestedCount) \ {channelId} |->
                      s.channelNotInterestedCount[c]]]

\* mutant: only hidden videos are dropped
filterVideosByHiddenOnly(vs, s) ==
    SelectSeq(vs, LAMBDA v : ~Includes(s.hiddenVideoIds, v.id))

\* filterVideosBySession, with the session it read
filterVideosBySession(vs, s) ==
    SelectSeq(vs, LAMBDA v :
        /\ ~Includes(s.hiddenVideoIds, v.id)
        /\ ~(v.channelId # "" /\ Includes(s.blockedChannelIds, v.channelId)))

FeedVideoOf(id, channelId, velocityScore) ==
    [id |-> id, channelId |-> channelId, velocityScore |-> velocityScore]

\* data.items of a feed response, best score first
FeedResponses ==
    { <<FeedVideoOf("v1", "c1", 900), FeedVideoOf("v3", "c2", 500),
        FeedVideoOf("v2", "c1", 100)>>,
      <<FeedVideoOf("v3", "c2", 700), FeedVideoOf("v2", "c1", 700)>> }

InitClient ==
    /\ PageIdle
    /\ ScoreIdle
    /\ HandlerIdle
    /\ ShuffleIdle
    /\ session = NoSession
    /\ filtered = NotFiltering

\* the user marks a video as not interested
MarkNotInterested ==
    /\ ~filtered.active
    /\ \E videoId \in VideoIds, channelId \in ChannelIds \cup {""}, theme \in Themes :
         /\ NotInterestedCount(session, channelId) < MaxStrikes
         /\ session' = markNotInterested(session, videoId, channelId, theme)
         /\ probe' = IF probe.kind = "unblocked" /\ probe.channelId = channelId
                      THEN [probe EXCEPT !.marks = @ + 1]
                      ELSE probe
    /\ UNCHANGED <<hvars, run, filtered, page>>

\* the user saves a video
SaveVideo ==
    /\ ~filtered.active
    /\ \E videoId \in VideoIds, theme \in Themes :
         session' = saveVideo(session, videoId, theme)
    /\ UNCHANGED <<hvars, probe, run, filtered, page>>

\* the user unblocks a channel.  probe records the channel unblocked last and
\* the not-interested marks it received since (history, not read by the code)
UnblockChannel ==
    /\ ~filtered.active
    /\ \E channelId \in ChannelIds :
         /\ session' = unblockChannel(session, channelId)
         /\ probe' = [kind |-> "unblocked", channelId |-> channelId, marks |-> 0]
    /\ UNCHANGED <<hvars, run, filtered, page>>

\* clearSessionLearning: the stored session is removed
ClearSessionLearning ==
    /\ ~filtered.active
    /\ session' = NoSession
    /\ probe' = NoProbe
    /\ UNCHANGED <<hvars, run, filtered, page>>

\* loadFeed filters a response: const session = getSessionLearning(); videos.filter(...)
FilterResponse ==
    /\ ~filtered.active
    /\ \E data \in FeedResponses :
         filtered' = [active |-> TRUE, session |-> session, input |-> data,
                      output |-> filterVideosBySession(data, session)]
    /\ UNCHANGED <<hvars, probe, run, session, page>>

\* the filter pass is over
FilterReturn ==
    /\ filtered.active
    /\ filtered' = NotFiltering
    /\ UNCHANGED <<hvars, probe, run, session, page>>

NextClient ==
    \/ MarkNotInterested
    \/ SaveVideo
    \/ UnblockChannel
    \/ ClearSessionLearning
    \/ FilterResponse
    \/ FilterReturn

SpecClient == InitClient /\ [][NextClient]_vars

(***************************************************************************)
(* SpecPlanner: generateFallbackPlan applied to one raw query.             *)
(***************************************************************************)
\* the number of words of a raw query
MaxWords == 4

\* the raw queries: q is not empty (the handler answers 400 otherwise)
Queries == UNION {[1..n -> Words] : n \in 1..MaxWords}

InitPlanner ==
    /\ PageIdle
    /\ HandlerIdle
    /\ ScoreIdle
    /\ ShuffleIdle
    /\ ClientIdle

\* the handler of the search plan falls back to the keyword planner
PlanQuery ==
    /\ probe.kind = "none"
    /\ \E q \in Queries :
         probe' = [kind |-> "plan", q |-> q, plan |-> generateFallbackPlan(q)]
    /\ UNCHANGED <<hvars, run, session, filtered, page>>

NextPlanner == PlanQuery

SpecPlanner == InitPlanner /\ [][NextPlanner]_vars

(***************************************************************************)
(* SpecRerank: the handler of api/ai/rerank.js, followed by the blending of *)
(* its answer into the scores of the videos that were sent.                *)
(***************************************************************************)
RerankIds == {"v1", "v2", "v3"}

\* the scores the model may give, and the base scores of the videos sent
AiScores == {Num(0), R(1, 2), Num(1)}

BaseScores == {Num(100), Num(250)}

\* const subset = videos.slice(0, 20)
SubsetCap == 20

\* a request body with one video more than the model is sent
LongVideoIds ==
    <<"v1", "v2", "v3", "v4", "v5", "v6", "v7", "v8", "v10", "v11", "v12", "v13",
      "v14", "v15", "v16", "v17", "v18", "v19", "v20", "v21", "v22">>

LongVideos == [k \in 1..Len(LongVideoIds) |->
                  [id |-> LongVideoIds[k], velocityScore |-> Num(100)]]

\* the videos of a request body: no video, one video, two different videos, or
\* more videos than the model is sent
RerankVideos ==
    {<<>>, LongVideos}
    \cup {<<[id |-> a, velocityScore |-> s]>> : a \in RerankIds, s \in BaseScores}
    \cup {<<[id |-> "v1", velocityScore |-> s], [id |-> "v2", velocityScore |-> t]>> :
             s \in BaseScores, t \in BaseScores}

\* the ids an answer of the model names: ids of the videos it was sent (of these
\* v1, v2 and v22), and an id that no video has
AnswerIds(subset) ==
    ({subset[k].id : k \in 1..Len(subset)} \cap {"v1", "v2", "v22"}) \cup {"v9"}

\* the entries of a JSON array the model may return; an entry may lack its score
AiEntries(subset) ==
    {[videoId |-> a, hasScore |-> TRUE, aiRelevanceScore |-> x] :
        a \in AnswerIds(subset), x \in AiScores}
    \cup {[videoId |-> a, hasScore |-> FALSE, aiRelevanceScore |-> Num(0)] :
             a \in AnswerIds(subset) \cap {"v1"}}

\* data.candidates[0].content.parts[0].text: nothing, text that is no JSON, JSON
\* that is no array, or a JSON array; the text may sit in a ``` fence
GeminiTexts(subset) ==
    {[kind |-> k, fenced |-> f, entries |-> <<>>] :
        k \in {"empty", "malformed", "object"}, f \in BOOLEAN}
    \cup {[kind |-> "array", fenced |-> f, entries |-> e] :
             f \in BOOLEAN,
             e \in {<<>>} \cup {<<a>> : a \in AiEntries(subset)}
                   \cup {<<a, b>> : a \in AiEntries(subset),
                                    b \in {c \in AiEntries(subset) :
                                              c.videoId = "v2" \/ ~c.hasScore}}}

\* scores: videos.map(v => ({ videoId: v.id, aiRelevanceScore: 0.5 }))
NeutralScores(vs) ==
    [k \in 1..Len(vs) |-> [videoId |-> vs[k].id, aiRelevanceScore |-> R(1, 2)]]

\* new Map(aiScores.map(s => [s.videoId, s.aiRelevanceScore])).get(id): the last
\* entry of an id is the one the map keeps
ScoreMapGet(aiScores, id) ==
    LET at == {k \in 1..Len(aiScores) : aiScores[k].videoId = id}
    IN  IF at = {} THEN [hasScore |-> FALSE, aiRelevanceScore |-> Num(0)]
        ELSE LET last == CHOOSE k \in at : \A j \in at : j <= k
             IN  [hasScore |-> aiScores[last].hasScore,
                  aiRelevanceScore |-> aiScores[last].aiRelevanceScore]

\* mutant: a video the model did not score gets 0
MappedScoresZeroDefault(vs, aiScores) ==
    [k \in 1..Len(vs) |->
        LET got == ScoreMapGet(aiScores, vs[k].id)
        IN  [videoId |-> vs[k].id,
             aiRelevanceScore |-> IF got.hasScore THEN got.aiRelevanceScore ELSE Num(0)]]

\* videos.map(v => ({ videoId: v.id, aiRelevanceScore: scoreMap.get(v.id) ?? 0.5 }))
MappedScores(vs, aiScores) ==
    [k \in 1..Len(vs) |->
        LET got == ScoreMapGet(aiScores, vs[k].id)
        IN  [videoId |-> vs[k].id,
             aiRelevanceScore |-> IF got.hasScore THEN got.aiRelevanceScore ELSE R(1, 2)]]

\* the text after the fence is stripped parses to an array
ParsesToArray(text) == text.kind = "array"

InitRerank ==
    /\ PageIdle
    /\ ScoreIdle
    /\ ShuffleIdle
    /\ ClientIdle
    /\ pc = "received"
    /\ \E vs \in RerankVideos, geminiKey \in BOOLEAN :
         req = [handler |-> "rerank", videos |-> vs, geminiKey |-> geminiKey]
    /\ now = NowMs
    /\ searchPlan = NoPlan
    /\ searchResults = <<>>
    /\ items = <<>>
    /\ nextToken = Null
    /\ statsResponse = <<>>
    /\ channelData = EmptyMap
    /\ videos = <<>>
    /\ failed = {}
    /\ response = NoResponse

\* if (!videos || !Array.isArray(videos) || videos.length === 0) return 400
RerankBadRequest ==
    /\ pc = "received"
    /\ req.handler = "rerank"
    /\ Len(req.videos) = 0
    /\ response' = [status |-> 400, scores |-> <<>>, source |-> Null]
    /\ pc' = "done"
    /\ UNCHANGED <<req, now, searchPlan, searchResults, items, nextToken, statsResponse,
                   channelData, videos, failed, probe, run, session, filtered, page>>

\* without a GEMINI_API_KEY the neutral scores are returned, with one the model
\* is called
RerankStart ==
    /\ pc = "received"
    /\ req.handler = "rerank"
    /\ Len(req.videos) > 0
    /\ IF req.geminiKey
       THEN /\ pc' = "rerankCall"
            /\ UNCHANGED response
       ELSE /\ response' = [status |-> 200, scores |-> NeutralScores(req.videos),
                            source |-> "neutral-fallback"]
            /\ pc' = "done"
    /\ UNCHANGED <<req, now, searchPlan, searchResults, items, nextToken, statsResponse,
                   channelData, videos, failed, probe, run, session, filtered, page>>

\* the fetch rejects or answers !response.ok: rerankWithGemini throws, and the
\* catch of the handler answers the neutral scores
RerankCallFailed ==
    /\ pc = "rerankCall"
    /\ failed' = failed \cup {<<"gemini", 0>>}
    /\ response' = [status |-> 200, scores |-> NeutralScores(req.videos),
                    source |-> "error-fallback"]
    /\ pc' = "done"
    /\ UNCHANGED <<req, now, searchPlan, searchResults, items, nextToken, statsResponse,
                   channelData, videos, probe, run, session, filtered, page>>

\* the model answers a text: an empty text throws, JSON.parse throws on text that
\* is no JSON, aiScores.map throws on JSON that is no array; otherwise the scores
\* are mapped back to the videos
RerankAnswered ==
    /\ pc = "rerankCall"
    /\ \E text \in GeminiTexts(Slice(req.videos, SubsetCap)) :
         /\ searchResults' = <<text>>
         /\ IF ParsesToArray(text)
            THEN /\ response' = [status |-> 200,
                                 scores |-> MappedScores(req.videos, text.entries),
                                 source |-> "gemini"]
                 /\ UNCHANGED failed
            ELSE /\ failed' = failed \cup {<<text.kind, 0>>}
                 /\ response' = [status |-> 200, scores |-> NeutralScores(req.videos),
                                 source |-> "error-fallback"]
    /\ pc' = "done"
    /\ UNCHANGED <<req, now, searchPlan, items, nextToken, statsResponse,
                   channelData, videos, probe, run, session, filtered, page>>

\* the caller blends the scores it was answered into the base scores:
\* final = baseScore * 0.8 + baseScore * aiRelevanceScore * 0.2; a request that
\* failed leaves the base scores as they are
BlendScores ==
    /\ pc = "done"
    /\ req.handler = "rerank"
    /\ videos' =
          [k \in 1..Len(req.videos) |->
              [id |-> req.videos[k].id,
               baseScore |-> req.videos[k].velocityScore,
               finalScore |->
                  IF response.status = 200
                  THEN BlendedScore(req.videos[k].velocityScore,
                                    response.scores[k].aiRelevanceScore)
                  ELSE req.videos[k].velocityScore]]
    /\ pc' = "blended"
    /\ UNCHANGED <<req, now, searchPlan, searchResults, items, nextToken, statsResponse,
                   channelData, failed, response, probe, run, session, filtered, page>>

NextRerank ==
    \/ RerankBadRequest
    \/ RerankStart
    \/ RerankCallFailed
    \/ RerankAnswered
    \/ BlendScores

SpecRerank == InitRerank /\ [][NextRerank]_vars

(***************************************************************************)
(* SpecPage: the feed page of dashboard/pages/feed.js.  A loadFeed runs up  *)
(* to its await of fetch when it is called; what follows the await runs    *)
(* when the response arrives, in one piece.  page.placed and page.dropped  *)
(* are history: which load placed which id into feedItems since the last   *)
(* press of refresh, and the ids the last completed load left out.  So are *)
(* page.shown (the load whose response was applied last), page.latestDone  *)
(* (the response of the load issued last was applied) and page.raced (a    *)
(* mode was clicked while a load was in flight).                           *)
(***************************************************************************)
\* the loadFeed calls of one behaviour
MaxLoads == 3

\* the cards the user marks (not interested, saved) in one behaviour
MaxMarks == 2

Marks(s) == Len(s.hiddenVideoIds) + Len(s.savedVideoIds)

\* the modes of the mode selector that are clicked
PageModes == {"forYou", "trending"}

PageVideo(id, channelId, theme, velocityScore) ==
    [id |-> id, channelId |-> channelId, theme |-> theme, velocityScore |-> velocityScore]

\* data of a feed response: items, best score first, and nextPageToken.  The
\* items feed.js sends have no theme (theme ""); one item here has one
PageResponses ==
    { [items |-> <<PageVideo("v1", "c1", "music", 900),
                   PageVideo("v3", "c2", "", 500),
                   PageVideo("v2", "c1", "", 100)>>,
       nextPageToken |-> "tok1"],
      [items |-> <<PageVideo("v3", "c2", "", 700),
                   PageVideo("v2", "c1", "", 700)>>,
       nextPageToken |-> Null],
      [items |-> <<>>, nextPageToken |-> Null] }

\* mutant: every struck channel is penalised, not only one with exactly 1 strike
applySessionPenaltiesAnyStrike(vs, s) ==
    [k \in 1..Len(vs) |->
        LET v == vs[k]
            disliked == IF v.theme # "" /\ Includes(s.themeDislikes, v.theme)
                        THEN R(7, 10) ELSE Num(1)
            liked == IF v.theme # "" /\ Includes(s.likedThemes, v.theme)
                     THEN R(12, 10) ELSE Num(1)
            struck == IF v.channelId # "" /\ NotInterestedCount(s, v.channelId) >= 1
                      THEN R(8, 10) ELSE Num(1)
            multiplier == RMul(RMul(disliked, liked), struck)
        IN  [id |-> v.id, channelId |-> v.channelId, theme |-> v.theme,
             velocityScore |-> MathRound(RMul(Num(v.velocityScore), multiplier)),
             sessionMultiplier |-> multiplier]]

\* applySessionPenalties of recommendations.js.  Math.round(v.velocityScore *
\* multiplier) is computed on exact rationals: a double differs from them only
\* when the exact product ends in .5 (a score of 5, 15, 25, ... times 0.7)
applySessionPenalties(vs, s) ==
    [k \in 1..Len(vs) |->
        LET v == vs[k]
            disliked == IF v.theme # "" /\ Includes(s.themeDislikes, v.theme)
                        THEN R(7, 10) ELSE Num(1)
            liked == IF v.theme # "" /\ Includes(s.likedThemes, v.theme)
                     THEN R(12, 10) ELSE Num(1)
            struck == IF v.channelId # "" /\ NotInterestedCount(s, v.channelId) = 1
                      THEN R(8, 10) ELSE Num(1)
            multiplier == RMul(RMul(disliked, liked), struck)
        IN  [id |-> v.id, channelId |-> v.channelId, theme |-> v.theme,
             velocityScore |-> MathRound(RMul(Num(v.velocityScore), multiplier)),
             sessionMultiplier |-> multiplier]]

\* mutant: every video of the response is kept
NewItemsUnfiltered(vs, shown) == vs

\* video.theme || 'general'
ThemeOf(v) == IF v.theme = "" THEN "general" ELSE v.theme

\* const newItems = videos.filter(v => !shownVideoIds.has(v.id))
NewItems(vs, shown) == SelectSeq(vs, LAMBDA v : v.id \notin shown)

IdsOf(vs) == {vs[k].id : k \in 1..Len(vs)}

\* the page is rendered: renderFeed calls loadFeed
InitPage ==
    /\ ScoreIdle
    /\ HandlerIdle
    /\ ShuffleIdle
    /\ session = NoSession
    /\ filtered = NotFiltering
    /\ page = [rendered |-> TRUE, currentMode |-> "forYou", feedItems |-> <<>>,
               currentCardIndex |-> 0, shownVideoIds |-> {}, nextPageToken |-> Null,
               loads |-> {[n |-> 1, mode |-> "forYou", pageToken |-> Null]},
               started |-> 1, errorShown |-> FALSE, placed |-> {}, dropped |-> {},
               shown |-> 0, latestDone |-> FALSE, raced |-> FALSE]

\* loadFeed up to its await: the url is built from currentMode and nextPageToken
StartLoad(p) ==
    [p EXCEPT !.loads = @ \cup {[n |-> p.started + 1, mode |-> p.currentMode,
                                 pageToken |-> p.nextPageToken]},
              !.started = @ + 1,
              !.errorShown = FALSE,
              !.latestDone = FALSE]

\* resetAndLoadFeed
ResetAndLoad(p) ==
    StartLoad([p EXCEPT !.feedItems = <<>>, !.currentCardIndex = 0,
                        !.nextPageToken = Null])

\* a click on a button of the mode selector
ModeClick ==
    /\ page.started < MaxLoads
    /\ \E mode \in PageModes :
         page' = ResetAndLoad([page EXCEPT !.currentMode = mode,
                                           !.raced = @ \/ page.loads # {}])
    /\ UNCHANGED <<hvars, probe, run, session, filtered>>

\* a click on the refresh button
RefreshClick ==
    /\ page.started < MaxLoads
    /\ page' = ResetAndLoad([page EXCEPT !.shownVideoIds = {}, !.placed = {},
                                         !.dropped = {}])
    /\ UNCHANGED <<hvars, probe, run, session, filtered>>

\* showNextCard (a swipe up, or the next button)
ShowNextCard ==
    /\ IF page.currentCardIndex < Len(page.feedItems) - 1
       THEN page' = [page EXCEPT !.currentCardIndex = @ + 1, !.errorShown = FALSE]
       ELSE /\ page.nextPageToken # Null
            /\ page.started < MaxLoads
            /\ page' = StartLoad(page)
    /\ UNCHANGED <<hvars, probe, run, session, filtered>>

\* showPrevCard
ShowPrevCard ==
    /\ page.currentCardIndex > 0
    /\ page' = [page EXCEPT !.currentCardIndex = @ - 1, !.errorShown = FALSE]
    /\ UNCHANGED <<hvars, probe, run, session, filtered>>

\* mutant: the index stays where it was
UnclampedIndex(index, length) == index

\* if (currentCardIndex >= feedItems.length)
\*     currentCardIndex = Math.max(0, feedItems.length - 1)
ClampedIndex(index, length) ==
    IF index >= length THEN (IF length - 1 > 0 THEN length - 1 ELSE 0) ELSE index

\* handleNotInterested on the card that is shown
HandleNotInterested ==
    /\ page.currentCardIndex < Len(page.feedItems)
    /\ LET v == page.feedItems[page.currentCardIndex + 1]
           left == SelectSeq(page.feedItems, LAMBDA w : w.id # v.id)
       IN  /\ NotInterestedCount(session, v.channelId) < MaxStrikes
           /\ Marks(session) < MaxMarks
           /\ session' = markNotInterested(session, v.id, v.channelId, ThemeOf(v))
           /\ page' = [page EXCEPT
                          !.feedItems = left,
                          !.errorShown = FALSE,
                          !.currentCardIndex = ClampedIndex(@, Len(left))]
    /\ UNCHANGED <<hvars, probe, run, filtered>>

\* handleSaveVideo on the card that is shown
HandleSaveVideo ==
    /\ page.currentCardIndex < Len(page.feedItems)
    /\ LET v == page.feedItems[page.currentCardIndex + 1]
       IN  /\ Marks(session) < MaxMarks
           /\ session' = saveVideo(session, v.id, ThemeOf(v))
           /\ session' # session
    /\ UNCHANGED <<hvars, probe, run, filtered, page>>

\* the response of a loadFeed arrives: session filter, penalties, sort, dedup
LoadCompleted ==
    /\ \E load \in page.loads, data \in PageResponses :
         \E sorted \in {SortByScore(applySessionPenalties(
                                       filterVideosBySession(data.items, session),
                                       session))} :
            \E newItems \in {NewItems(sorted, page.shownVideoIds)} :
               page' = [page EXCEPT
                           !.feedItems = newItems,
                           !.nextPageToken = data.nextPageToken,
                           !.shownVideoIds = @ \cup IdsOf(newItems),
                           !.currentCardIndex = 0,
                           !.errorShown = FALSE,
                           !.loads = @ \ {load},
                           !.shown = load.n,
                           !.latestDone = @ \/ load.n = page.started,
                           !.placed = @ \cup {<<load.n, id>> : id \in IdsOf(newItems)},
                           !.dropped = IdsOf(sorted) \ IdsOf(newItems)]
    /\ UNCHANGED <<hvars, probe, run, session, filtered>>

\* the fetch of a loadFeed rejects, or answers !response.ok: the catch shows the
\* error, the state of the page stays
LoadFailed ==
    /\ \E load \in page.loads :
         page' = [page EXCEPT !.loads = @ \ {load}, !.errorShown = TRUE]
    /\ UNCHANGED <<hvars, probe, run, session, filtered>>

\* the Retry button of the error card: onclick="loadFeed()"
RetryClick ==
    /\ page.errorShown
    /\ page.started < MaxLoads
    /\ page' = StartLoad(page)
    /\ UNCHANGED <<hvars, probe, run, session, filtered>>

NextPage ==
    \/ ModeClick
    \/ RefreshClick
    \/ ShowNextCard
    \/ ShowPrevCard
    \/ HandleNotInterested
    \/ HandleSaveVideo
    \/ LoadCompleted
    \/ LoadFailed
    \/ RetryClick

SpecPage == InitPage /\ [][NextPage]_vars

\* the page is rendered on a later visit: localStorage still holds the session
\* of an earlier one, in which a video of channel c1 was marked not interested
StoredSession == markNotInterested(NoSession, "v9", "c1", "general")

InitReturning ==
    /\ ScoreIdle
    /\ HandlerIdle
    /\ ShuffleIdle
    /\ session = StoredSession
    /\ filtered = NotFiltering
    /\ page = [rendered |-> TRUE, currentMode |-> "forYou", feedItems |-> <<>>,
               currentCardIndex |-> 0, shownVideoIds |-> {}, nextPageToken |-> Null,
               loads |-> {[n |-> 1, mode |-> "forYou", pageToken |-> Null]},
               started |-> 1, errorShown |-> FALSE, placed |-> {}, dropped |-> {},
               shown |-> 0, latestDone |-> FALSE, raced |-> FALSE]

SpecReturning == InitReturning /\ [][NextPage]_vars

(***************************************************************************)
(* SpecPenalties: applySessionPenalties applied to the candidates of a     *)
(* response, under the sessions the store can hold.                        *)
(***************************************************************************)
\* velocityScore of a candidate: an integer (feed.js rounds it)
PenaltyScores == {101, 250}

\* a candidate: without channel or of c1 or c2, without theme or of a theme
PenaltyVideos ==
    {PageVideo("v1", c, t, x) : c \in ChannelIds \cup {""}, t \in Themes \cup {""},
                               x \in PenaltyScores}

\* the stored sessions: music disliked or not, liked or not, c1 with 0 to 3 and
\* c2 with 0 or 1 not-interested actions, blocked from the second on
PenaltySessions ==
    {[hiddenVideoIds |-> <<>>,
      blockedChannelIds |-> IF n >= 2 THEN <<"c1">> ELSE <<>>,
      channelNotInterestedCount |->
          [c \in (IF n > 0 THEN {"c1"} ELSE {}) \cup (IF m > 0 THEN {"c2"} ELSE {})
              |-> IF c = "c1" THEN n ELSE m],
      themeDislikes |-> IF d THEN <<"music">> ELSE <<>>,
      savedVideoIds |-> <<>>,
      likedThemes |-> IF l THEN <<"music">> ELSE <<>>] :
        n \in 0..MaxStrikes, m \in 0..1, d \in BOOLEAN, l \in BOOLEAN}

InitPenalties ==
    /\ PageIdle
    /\ ScoreIdle
    /\ HandlerIdle
    /\ ShuffleIdle
    /\ session \in PenaltySessions
    /\ filtered = NotFiltering

\* loadFeed: videos = window.YotaSession.applySessionPenalties(videos)
ApplyPenalties ==
    /\ probe.kind = "none"
    /\ \E v \in PenaltyVideos, w \in PenaltyVideos :
         \E input \in {<<v>>, <<v, w>>} :
            probe' = [kind |-> "penalties", session |-> session, input |-> input,
                      output |-> applySessionPenalties(input, session)]
    /\ UNCHANGED <<hvars, run, session, filtered, page>>

NextPenalties == ApplyPenalties

SpecPenalties == InitPenalties /\ [][NextPenalties]_vars

(***************************************************************************)
(* SpecDiversity: Step 4 of feed.js in two requests that are served at the *)
(* same time.  The handler awaits the statistics and the channels; the map *)
(* of Step 4 runs in one piece, in either order of the two requests.       *)
(***************************************************************************)
\* the modes of the two requests
DiversityModes == {"wildcard", "trending", "unknown"}

\* the channels of the candidates of a request, in the order of the statistics
ChannelLists ==
    {<<a>> : a \in ChannelIds}
    \cup {<<a, b>> : a \in ChannelIds, b \in ChannelIds}
    \cup {<<a, b, c>> : a \in ChannelIds, b \in ChannelIds, c \in ChannelIds}
    \cup {<<"c1", "c1", "c2", "c1">>}

DiversityIds == <<"v1", "v2", "v3", "v4">>

\* statsResponse.data.items of a request
DiversityStats(channels) ==
    [k \in 1..Len(channels) |->
        [StatsItem(1000, 10, 1, NowMs - MsPerDay)
            EXCEPT !.id = DiversityIds[k], !.channelId = channels[k]]]

\* mutant: the counter is an object the requests share
NewChannelOccurrencesShared(left) == left

\* const channelOccurrences = {}, inside the handler: whatever an earlier
\* request left in its counter, a request starts with an empty one
NewChannelOccurrences(left) == EmptyMap

\* the counter after Step 4 ran over the statistics
RECURSIVE CountedFrom(_, _, _, _)
CountedFrom(stats, i, mode, channelOccurrences) ==
    IF i > Len(stats) THEN channelOccurrences
    ELSE CountedFrom(stats, i + 1, mode,
                     CountOccurrence(channelOccurrences, mode, stats[i].channelId))

InitDiversity ==
    /\ PageIdle
    /\ ScoreIdle
    /\ HandlerIdle
    /\ ClientIdle
    /\ \E first \in ChannelLists, second \in ChannelLists :
         \E modes \in [Invocations -> DiversityModes] :
            run = [r \in Invocations |->
                     [pc |-> "awaiting", mode |-> modes[r],
                      stats |-> DiversityStats(IF r = 1 THEN first ELSE second),
                      videos |-> <<>>, channelOccurrences |-> EmptyMap]]

\* the awaits of request r are over: Step 4
ScoreRequest(r) ==
    /\ run[r].pc = "awaiting"
    /\ \E left \in {run[o].channelOccurrences : o \in Invocations \ {r}} :
         \E counter \in {NewChannelOccurrences(left)} :
            run' = [run EXCEPT ![r] =
                      [@ EXCEPT !.pc = "scored",
                                !.videos = FeedVideosFrom(run[r].stats, 1, run[r].mode,
                                                          NowMs, "US", EmptyMap, counter),
                                !.channelOccurrences =
                                    CountedFrom(run[r].stats, 1, run[r].mode, counter)]]
    /\ UNCHANGED <<hvars, probe, session, filtered, page>>

NextDiversity == \E r \in Invocations : ScoreRequest(r)

SpecDiversity == InitDiversity /\ [][NextDiversity]_vars

(***************************************************************************)
(* Claims.                                                                 *)
(***************************************************************************)
ProbedVideos == {probe.low, probe.high}

\* C1: every candidate scored by the feed handler and by the advanced-search
\* handler has ageHours >= 1 and ageDays >= 0.1, whatever its publishedAt (also
\* one equal to or later than now); so have the rounded values of the response.
Thm_C1_AgeClamped ==
    probe.kind \in {"feed", "advanced"} =>
        \A v \in ProbedVideos :
            /\ RLe(Num(1), v.rawAgeHours)
            /\ RLe(R(1, 10), v.rawAgeDays)
            /\ RLe(Num(1), v.ageHours)
            /\ RLe(R(1, 10), v.ageDays)

\* a candidate published later than now was scored, and both floors applied
Wit_C1_FuturePublishedAt ==
    /\ probe.kind = "feed"
    /\ probe.low.publishedAt > NowMs
    /\ probe.low.rawAgeHours = Num(1)
    /\ probe.low.rawAgeDays = R(1, 10)

\* C2: a candidate with views = 0 scores exactly 0 in the forYou, trending and
\* weekMovers feed modes, and its basic trendScore is exactly 0, whatever its
\* likes, comments and age.
Thm_C2_ZeroViewsZeroScore ==
    /\ (probe.kind = "feed" /\ probe.mode \in {"forYou", "trending", "weekMovers"}
            /\ probe.low.views = 0)
        => (probe.low.score = Num(0) /\ probe.low.velocityScore = 0)
    /\ (probe.kind = "basic" /\ probe.low.views = 0) => probe.low.trendScore = 0

\* a video with no views but with likes and comments was scored in trending mode
Wit_C2_ZeroViewsWithLikes ==
    /\ probe.kind = "feed"
    /\ probe.mode = "trending"
    /\ probe.low.views = 0
    /\ probe.low.likes > 0
    /\ probe.low.comments > 0
    /\ probe.low.score = Num(0)

\* C5 as stated: of two videos that differ only in views, scored in the same
\* mode (any feed mode, or the basic trend score), the one with more views never
\* has the strictly lower score.
Claim_C5_MonotoneInViews ==
    /\ probe.kind = "feed" =>
          (RLe(probe.low.score, probe.high.score)
           /\ probe.low.velocityScore <= probe.high.velocityScore)
    /\ probe.kind = "basic" => probe.low.trendScore <= probe.high.trendScore

\* C5 as amended: the same, for the trending, weekMovers, risingSmall and
\* wildcard modes (wildcard: both videos at the same channel-occurrence count).
Thm_C5_MonotoneInViews ==
    (probe.kind = "feed"
        /\ probe.mode \in {"trending", "weekMovers", "risingSmall", "wildcard"})
    => (RLe(probe.low.score, probe.high.score)
        /\ probe.low.velocityScore <= probe.high.velocityScore)

\* two videos with likes, differing in views, were scored in risingSmall mode and
\* the one with more views scored strictly higher
Wit_C5_MoreViewsHigherScore ==
    /\ probe.kind = "feed"
    /\ probe.mode = "risingSmall"
    /\ probe.low.views > 0
    /\ probe.low.likes > 0
    /\ probe.low.views < probe.high.views
    /\ probe.low.velocityScore < probe.high.velocityScore

\* the request merges several search branches
Merging ==
    \/ req.handler = "advanced"
    \/ req.handler = "feed" /\ LanguageMode(req.userCountry) = "mixed"

\* the search calls are settled and their results merged
Joined ==
    /\ pc \in {"stats", "channels", "done"}
    /\ searchResults # <<>>
    /\ AllSearchesDone

\* the positions <<branch, index>> at which the search results hold a video id
Sightings ==
    UNION { { <<b, k>> : k \in {n \in 1..Len(searchResults[b].items) :
                                  searchResults[b].items[n].videoId # Undefined} } :
            b \in DOMAIN searchResults }

IdAt(p) == searchResults[p[1]].items[p[2]].videoId

\* position p comes before position q, in branch order and then in result order
Earlier(p, q) == p[1] < q[1] \/ (p[1] = q[1] /\ p[2] < q[2])

Place(item) == <<item.branch, item.pos>>

\* C3: merging the search branches yields a list in which every video id found
\* occurs exactly once, the item kept for an id is the one of the first branch (in
\* branch order) that produced it, and the kept items are in order of first sight.
Thm_C3_MergeDedupes ==
    (Merging /\ Joined) =>
        /\ \A i, j \in 1..Len(items) : i # j => items[i].videoId # items[j].videoId
        /\ {items[i].videoId : i \in 1..Len(items)} = {IdAt(p) : p \in Sightings}
        /\ \A i \in 1..Len(items) :
              /\ Place(items[i]) \in Sightings
              /\ IdAt(Place(items[i])) = items[i].videoId
              /\ \A p \in Sightings :
                    IdAt(p) = items[i].videoId => ~Earlier(p, Place(items[i]))
        /\ \A i, j \in 1..Len(items) : i < j => Earlier(Place(items[i]), Place(items[j]))

\* two branches returned the same video id, and the merged list has several items
Wit_C3_OverlappingBranches ==
    /\ Merging
    /\ Joined
    /\ Len(items) >= 2
    /\ \E p, q \in Sightings : p[1] < q[1] /\ IdAt(p) = IdAt(q)

\* C6: a feed response in risingSmall mode holds no candidate whose
\* subscriberCount is 0 (unknown channel data included) or is >= maxSubs.
Thm_C6_RisingSmallFiltered ==
    (pc = "done" /\ req.handler = "feed" /\ req.mode = "risingSmall"
        /\ response.status = 200)
    => \A k \in 1..Len(response.items) :
          LET v == response.items[k]
          IN  v.id # Undefined =>
                 /\ v.subscriberCount > 0
                 /\ v.subscriberCount < MaxSubs
                 /\ v.channelId \in DOMAIN channelData
                 /\ channelData[v.channelId].subscriberCount \in 1..(MaxSubs - 1)

\* a risingSmall response that kept some candidates and removed others
Wit_C6_SomeRemoved ==
    /\ pc = "done"
    /\ req.handler = "feed"
    /\ req.mode = "risingSmall"
    /\ response.status = 200
    /\ Len(response.items) > 0
    /\ Len(response.items) < Len(statsResponse)

\* C9 as stated: a request ends in an error response only if the statistics call
\* failed; a failed search call, channel lookup or planner never produces one.
Claim_C9_OnlyStatsFailureIsFatal ==
    (pc = "done" /\ req.handler \in {"feed", "advanced"} /\ response.status = 500)
        => <<"stats", 0>> \in failed

FailedBranches == {b \in DOMAIN searchResults : <<"search", b>> \in failed}
SucceededBranches == (DOMAIN searchResults) \ FailedBranches

\* C10: in the mixed-language feed and in multi-query advanced search a failed
\* search branch contributes an empty result and nothing else: the merged
\* candidates are exactly the deduplicated ones of the branches that succeeded,
\* the request does not fail for it (only a failed statistics call gives an error
\* response), and if every branch failed the response is an empty item list.
Thm_C10_FailedBranchIsEmpty ==
    Merging =>
        /\ \A b \in FailedBranches :
              /\ searchResults[b].state = "done"
              /\ searchResults[b].items = <<>>
              /\ searchResults[b].nextPageToken = Undefined
        /\ (pc = "done" /\ response.status = 500) => <<"stats", 0>> \in failed
        /\ (Joined /\ FailedBranches # {}) =>
              /\ {items[i].videoId : i \in 1..Len(items)} =
                    {IdAt(p) : p \in {q \in Sightings : q[1] \in SucceededBranches}}
              /\ \A i, j \in 1..Len(items) :
                    i # j => items[i].videoId # items[j].videoId
              /\ \A i \in 1..Len(items) : items[i].branch \in SucceededBranches
              /\ (pc = "done" /\ SucceededBranches = {})
                    => (response.status = 200 /\ response.items = <<>>)
              /\ (pc = "done" /\ response.status = 200) =>
                    \A k \in 1..Len(response.items) :
                       response.items[k].id # Undefined =>
                          \E i \in 1..Len(items) :
                             items[i].videoId = response.items[k].id

\* a request answered with candidates although one of its search branches failed
Wit_C10_OneBranchFailed ==
    /\ Merging
    /\ pc = "done"
    /\ response.status = 200
    /\ FailedBranches # {}
    /\ SucceededBranches # {}
    /\ Len(response.items) >= 1

Thm_C7_FilterDropsBlocked ==
    filtered.active =>
        \A k \in 1..Len(filtered.output) :
            /\ ~Includes(filtered.session.hiddenVideoIds, filtered.output[k].id)
            /\ ~Includes(filtered.session.blockedChannelIds, filtered.output[k].channelId)

\* the best-scored video of the response is of a blocked channel and was dropped,
\* and another video was kept
Wit_C7_TopScoredBlocked ==
    /\ filtered.active
    /\ Includes(filtered.session.blockedChannelIds, filtered.input[1].channelId)
    /\ ~Includes(filtered.session.hiddenVideoIds, filtered.input[1].id)
    /\ Len(filtered.output) >= 1

\* C8: a channel is in blockedChannelIds exactly when its
\* channelNotInterestedCount is >= 2 (so the second not-interested action blocks
\* it and the first does not), and blockedChannelIds holds no channel twice.
Thm_C8_BlockedIffTwoStrikes ==
    /\ \A c \in ChannelIds :
          Includes(session.blockedChannelIds, c) <=> NotInterestedCount(session, c) >= 2
    /\ \A i, j \in 1..Len(session.blockedChannelIds) :
          i # j => session.blockedChannelIds[i] # session.blockedChannelIds[j]

\* one channel with one strike and not blocked, the other with more than two and blocked
Wit_C8_OneAndThreeStrikes ==
    /\ NotInterestedCount(session, "c1") = 1
    /\ ~Includes(session.blockedChannelIds, "c1")
    /\ NotInterestedCount(session, "c2") = 3
    /\ Includes(session.blockedChannelIds, "c2")

\* C13: the fallback planner applied to "viral baby vlog today" returns
\* suggestedWindowDays 1 and the trending-like mode "24h", which "viral" alone
\* also selects; the clean query is "baby vlog", without "today" and "viral"; and
\* the queries start with the clean query and go on with the baby expansions.
Thm_C13_ViralBabyVlogToday ==
    /\ (probe.kind = "plan" /\ probe.q = <<"viral", "baby", "vlog", "today">>) =>
          /\ probe.plan.suggestedWindowDays = 1
          /\ probe.plan.suggestedMode = "24h"
          /\ probe.plan.cleanQuery = <<"baby", "vlog">>
          /\ probe.plan.queries =
                << <<"baby", "vlog">>, <<"newborn">>, <<"infant", "content">>,
                   <<"baby", "milestones">>, <<"baby", "vlog", "vlog">> >>
    /\ (probe.kind = "plan" /\ probe.q = <<"viral", "baby", "vlog">>) =>
          (probe.plan.suggestedWindowDays = 7 /\ probe.plan.suggestedMode = "24h")
    /\ (probe.kind = "plan" /\ probe.q = <<"baby", "vlog">>) =>
          (probe.plan.suggestedWindowDays = 7 /\ probe.plan.suggestedMode = "7d")

\* the planner was applied to "viral baby vlog today"
Wit_C13_Planned ==
    /\ probe.kind = "plan"
    /\ probe.q = <<"viral", "baby", "vlog", "today">>
    /\ Len(probe.plan.queries) = MaxQueries

\* C16 as stated: the queries of the fallback plan are not empty, none of them
\* is the empty string, and when the clean query is empty the list starts with
\* the raw query.
Claim_C16_QueriesFallBackToRaw ==
    probe.kind = "plan" =>
        /\ Len(probe.plan.queries) >= 1
        /\ \A k \in 1..Len(probe.plan.queries) : probe.plan.queries[k] # <<>>
        /\ probe.plan.cleanQuery = <<>> => probe.plan.queries[1] = probe.q

\* C17 as stated: no time-window, language or mode hint pattern matches the
\* clean query.
Claim_C17_CleanQueryHasNoHint ==
    probe.kind = "plan" =>
        \A pattern \in {TimePattern24h, TimePattern7d, TimePattern30d,
                         LanguagePatternEs, LanguagePatternEn, ModeHintTrending,
                         ModeHintRisingSmall, ModeHintWildcard} :
            ~Test(pattern, probe.plan.cleanQuery)

\* C12: in trending mode without a seed, the candidates with (views, age)
\* (100000, 2h), (50000, 10h), (10000, 1h) and no likes or comments are ranked
\* by viewsPerHour * freshnessBoost: the 2-hour-old one first (50000 * (1.4 - 2/24)),
\* then the 1-hour-old one (10000 * (1.4 - 1/24)), then the 10-hour-old one
\* (5000 * (1.4 - 10/24)), in whatever order they were scored.
Thm_C12_TrendingRanking ==
    (probe.kind = "ranking" /\ probe.mode = "trending") =>
        /\ [k \in 1..Len(probe.items) |-> probe.items[k].id] = <<"v1", "v3", "v2">>
        /\ [k \in 1..Len(probe.items) |-> probe.items[k].velocityScore]
              = <<65833, 13583, 4917>>
        /\ \A k \in 1..Len(probe.items) :
              /\ probe.items[k].freshnessBoost = RSub(R(14, 10), RDiv(probe.items[k].rawAgeHours, Num(24)))
              /\ probe.items[k].score =
                    RMul(RDiv(Num(probe.items[k].views), probe.items[k].rawAgeHours),
                         probe.items[k].freshnessBoost)

\* the three candidates were scored in trending mode, the 2-hour-old one last
Wit_C12_BestScoredLast ==
    /\ probe.kind = "ranking"
    /\ probe.mode = "trending"
    /\ probe.stats[3].id = "v1"
    /\ probe.items[1].id = "v1"

\* the place of the video in the statistics items, the order of scoring
ScoredAt(id) == CHOOSE k \in 1..Len(probe.stats) : probe.stats[k].id = id

\* C20: without a seed the items of a feed or advanced-search response are in
\* non-increasing order of velocityScore, and items of equal velocityScore are
\* in the order in which they were scored.
Thm_C20_SortedAndStable ==
    probe.kind = "sorted" =>
        \A i, j \in 1..Len(probe.items) :
            i < j =>
               /\ probe.items[i].velocityScore >= probe.items[j].velocityScore
               /\ probe.items[i].velocityScore = probe.items[j].velocityScore
                     => ScoredAt(probe.items[i].id) < ScoredAt(probe.items[j].id)

\* a response with two pairs of equal scores, scored in another order than ranked
Wit_C20_TiesKept ==
    /\ probe.kind = "sorted"
    /\ Len(probe.items) = 4
    /\ probe.stats[1].id = "v4"
    /\ probe.items[1].velocityScore = probe.items[2].velocityScore
    /\ probe.items[3].velocityScore = probe.items[4].velocityScore
    /\ probe.items[1].velocityScore > probe.items[3].velocityScore

\* the feed request was answered after its channel lookup failed
AnsweredWithoutChannels ==
    /\ pc = "done"
    /\ req.handler = "feed"
    /\ response.status = 200
    /\ <<"channels", 0>> \in failed

\* the scored, filtered and sorted candidates of feed.js line 274
SortedCandidates ==
    SortByScore(RisingSmallFilter(
        FeedVideos(statsResponse, req.mode, now, req.userCountry, channelData), req.mode))

\* C15 as stated: after a failed channel lookup the feed response holds every
\* candidate of the statistics call, with channelCountry null and subscriberCount
\* 0, in every discovery mode.
Claim_C15_AllCandidatesKept ==
    AnsweredWithoutChannels =>
        \A k \in 1..Len(statsResponse) :
            \E j \in 1..Len(response.items) :
                /\ response.items[j].id = statsResponse[k].id
                /\ response.items[j].channelCountry = Null
                /\ response.items[j].subscriberCount = 0

\* C15 as amended: after a failed channel lookup every candidate of the
\* statistics call is scored with channelCountry null and subscriberCount 0; in
\* every mode but risingSmall all of them are among the sorted candidates (and in
\* the response, when no seed is given) and the response has as many items as
\* there are candidates; in risingSmall mode the filter removes all of them.
Thm_C15_KeptButInRisingSmall ==
    AnsweredWithoutChannels =>
        /\ \A j \in 1..Len(response.items) :
              response.items[j].id # Undefined =>
                 /\ response.items[j].channelCountry = Null
                 /\ response.items[j].subscriberCount = 0
        /\ req.mode = "risingSmall" =>
              (SortedCandidates = <<>> /\ response.items = <<>>)
        /\ req.mode # "risingSmall" =>
              /\ Len(response.items) = Len(statsResponse)
              /\ \A k \in 1..Len(statsResponse) :
                    \E j \in 1..Len(SortedCandidates) :
                        /\ SortedCandidates[j].id = statsResponse[k].id
                        /\ SortedCandidates[j].channelCountry = Null
                        /\ SortedCandidates[j].subscriberCount = 0
              /\ ~req.seed.given => response.items = SortedCandidates

\* a forYou request answered with several candidates after the lookup failed
Wit_C15_LookupFailed ==
    /\ AnsweredWithoutChannels
    /\ req.mode = "forYou"
    /\ ~req.seed.given
    /\ Len(statsResponse) >= 2
    /\ Len(response.items) = Len(statsResponse)

\* C19 as stated: in mixed-language mode the nextPageToken of the feed response
\* is the English branch's continuation token, null when that branch returned
\* none or failed.
Claim_C19_EnglishTokenOnly ==
    (pc = "done" /\ req.handler = "feed" /\ LanguageMode(req.userCountry) = "mixed"
        /\ response.status = 200 /\ Len(statsResponse) > 0)
    => response.nextPageToken = OrElse(searchResults[1].nextPageToken, Null)

\* C14: a query-driven request (advanced search, basic search, search plan)
\* without q is answered 400, and no planner, model, search, statistics or channel
\* call is issued for it.
Thm_C14_MissingQueryIsClientError ==
    (req.handler \in QueryHandlers /\ ~req.hasQ) =>
        /\ pc \in {"received", "done"}
        /\ searchPlan = NoPlan
        /\ searchResults = <<>>
        /\ statsResponse = <<>>
        /\ channelData = EmptyMap
        /\ videos = <<>>
        /\ failed = {}
        /\ pc = "done" => response = ClientErrorResponse

\* an advanced-search request without q was answered
Wit_C14_AdvancedWithoutQuery ==
    /\ req.handler = "advanced"
    /\ ~req.hasQ
    /\ pc = "done"
    /\ response.status = 400

PlacedBy(id) == {pl[1] : pl \in {q \in page.placed : q[2] = id}}

\* C18: between two presses of refresh no video id is placed into feedItems by
\* more than one completed loadFeed, whatever mode clicks, swipes and loads in
\* flight there are, and every id in feedItems is in shownVideoIds.
Thm_C18_PlacedOncePerSession ==
    /\ \A id \in VideoIds : Cardinality(PlacedBy(id)) <= 1
    /\ \A pl \in page.placed : pl[2] \in page.shownVideoIds
    /\ IdsOf(page.feedItems) \subseteq page.shownVideoIds

\* a second load of the session completed, left out an id the first had placed,
\* and placed another one
Wit_C18_SecondLoadDeduped ==
    /\ page.dropped # {}
    /\ page.feedItems # <<>>
    /\ \E a \in page.placed, b \in page.placed : a[1] # b[1]

\* the factors of a candidate that apply under a session
Disliked(v, s) == v.theme # "" /\ Includes(s.themeDislikes, v.theme)
Liked(v, s) == v.theme # "" /\ Includes(s.likedThemes, v.theme)
StruckOnce(v, s) ==
    /\ v.channelId \in DOMAIN s.channelNotInterestedCount
    /\ s.channelNotInterestedCount[v.channelId] = 1

ProductOfFactors(v, s) ==
    RMul(RMul(IF Disliked(v, s) THEN R(7, 10) ELSE Num(1),
              IF Liked(v, s) THEN R(12, 10) ELSE Num(1)),
         IF StruckOnce(v, s) THEN R(8, 10) ELSE Num(1))

\* C21 as stated: the new score is the old score times the product of the
\* applicable factors, the product is recorded as sessionMultiplier, a candidate
\* with no applicable signal keeps its score, and the session is not written.
Claim_C21_ScoreTimesProduct ==
    probe.kind = "penalties" =>
        /\ session = probe.session
        /\ Len(probe.output) = Len(probe.input)
        /\ \A k \in 1..Len(probe.input) :
              LET v == probe.input[k]
                  o == probe.output[k]
              IN  /\ o.sessionMultiplier = ProductOfFactors(v, session)
                  /\ Num(o.velocityScore) = RMul(Num(v.velocityScore), o.sessionMultiplier)

\* C21, amended: the new score is Math.round(old score * product of the
\* applicable factors); the product is recorded as sessionMultiplier; a
\* candidate with no applicable signal has multiplier 1 and keeps its (integer)
\* score; the stored session is not written.
Thm_C21_RoundedScoreTimesProduct ==
    probe.kind = "penalties" =>
        /\ session = probe.session
        /\ Len(probe.output) = Len(probe.input)
        /\ \A k \in 1..Len(probe.input) :
              LET v == probe.input[k]
                  o == probe.output[k]
              IN  /\ o.id = v.id
                  /\ o.sessionMultiplier = ProductOfFactors(v, session)
                  /\ o.velocityScore =
                        MathRound(RMul(Num(v.velocityScore), ProductOfFactors(v, session)))
                  /\ (~Disliked(v, session) /\ ~Liked(v, session)
                        /\ ~StruckOnce(v, session))
                        => (o.sessionMultiplier = Num(1)
                            /\ o.velocityScore = v.velocityScore)

\* a candidate with all three factors (0.672) next to one of a channel struck
\* twice, which has none
Wit_C21_AllFactorsAndNone ==
    /\ probe.kind = "penalties"
    /\ Len(probe.input) = 2
    /\ probe.output[1].sessionMultiplier = R(672, 1000)
    /\ probe.output[1].velocityScore = 68
    /\ probe.input[2].channelId = "c1"
    /\ NotInterestedCount(session, "c1") = 2
    /\ probe.output[2].sessionMultiplier = Num(1)

\* the entries of the model's answer, if the model was called and answered an
\* array
AnswerEntries ==
    IF searchResults # <<>> /\ ParsesToArray(searchResults[1])
    THEN searchResults[1].entries
    ELSE <<>>

\* C22: whatever the outcome of the model call, the rerank response has one
\* entry per input video, in input order, and a video whose id the answer of
\* the model does not name gets 0.5; so does every video after the first 20.
Thm_C22_OneEntryPerVideo ==
    (req.handler = "rerank" /\ pc \in {"done", "blended"} /\ response.status = 200) =>
        /\ Len(response.scores) = Len(req.videos)
        /\ \A k \in 1..Len(req.videos) :
              /\ response.scores[k].videoId = req.videos[k].id
              /\ (\A j \in 1..Len(AnswerEntries) :
                      AnswerEntries[j].videoId # req.videos[k].id)
                    => response.scores[k].aiRelevanceScore = R(1, 2)
              /\ k > SubsetCap => response.scores[k].aiRelevanceScore = R(1, 2)

\* 21 videos were sent, the model scored the first one 1 and said nothing of the
\* others: the 21st, which the model never saw, has 0.5
Wit_C22_BeyondTheSubset ==
    /\ req.handler = "rerank"
    /\ pc = "done"
    /\ response.source = "gemini"
    /\ Len(req.videos) > SubsetCap
    /\ response.scores[1].aiRelevanceScore = Num(1)
    /\ response.scores[Len(req.videos)].aiRelevanceScore = R(1, 2)

\* how many of the first k candidates of a request are of the channel of the k-th
OccurrenceIndex(stats, k) ==
    Cardinality({j \in 1..k : stats[j].channelId = stats[k].channelId})

\* C23: in wildcard mode the k-th candidate of a channel, counted in scoring
\* order within its own request, has diversityFactor 1 / (1 + 0.6 * (k - 1)),
\* whatever another request did before; in every other mode it has 1.
Thm_C23_DiversityPerRequest ==
    \A r \in DOMAIN run :
        ("stats" \in DOMAIN run[r] /\ run[r].pc = "scored") =>
            /\ Len(run[r].videos) = Len(run[r].stats)
            /\ \A k \in 1..Len(run[r].stats) :
                  run[r].videos[k].diversityFactor =
                     IF run[r].mode = "wildcard"
                     THEN R(10, 10 + 6 * (OccurrenceIndex(run[r].stats, k) - 1))
                     ELSE Num(1)

\* two wildcard requests were served; the second one scored has three candidates
\* of c1, with factors 1, 1/1.6 and 1/2.2, although the first counted c1 too
Wit_C23_TwoWildcardRequests ==
    /\ DOMAIN run = Invocations
    /\ \A r \in Invocations :
          "stats" \in DOMAIN run[r] /\ run[r].pc = "scored" /\ run[r].mode = "wildcard"
    /\ Occurrences(run[1].channelOccurrences, "c1") = 2
    /\ Len(run[2].videos) = 4
    /\ run[2].videos[1].diversityFactor = Num(1)
    /\ run[2].videos[2].diversityFactor = R(10, 16)
    /\ run[2].videos[4].diversityFactor = R(10, 22)

\* C24: for every integer seed the shuffle only reorders: the videos of the
\* response are the candidates that were sorted, each once, and no slot is empty.
Claim_C24_ShuffleOnlyReorders ==
    \A r \in DOMAIN run :
        ("seedParam" \in DOMAIN run[r] /\ run[r].pc = "done") =>
            /\ Len(run[r].videos) = Len(run[r].input)
            /\ \A k \in 1..Len(run[r].videos) : run[r].videos[k] # Hole
            /\ \A v \in {run[r].input[k] : k \in 1..Len(run[r].input)} :
                  Cardinality({k \in 1..Len(run[r].videos) : run[r].videos[k] = v}) = 1

\* C25: a mode was clicked while a load was in flight; once no load is in
\* flight and the response of the load issued last was applied, feedItems and
\* nextPageToken are those of that response, in whatever order the responses
\* arrived.
Claim_C25_LatestRequestWins ==
    (page.rendered /\ page.raced /\ page.loads = {} /\ page.latestDone)
        => page.shown = page.started

\* the score advanced-search.js gives a candidate in its 'trending' branch
TrendingFormula(v) ==
    TrendingScore(RDiv(Num(v.views), v.rawAgeHours),
                  EngagementRate(v.views, v.likes, v.comments),
                  TrendingBoost(v.rawAgeHours))

\* C26 as stated: when the planner answered an advanced search whose query
\* carries a trending hint ("viral", "trending"), or whose caller asked for
\* mode=trending, every candidate is scored viewsPerHour * (1 + 4 *
\* engagementRate) * freshnessBoost with the boost in [0.6, 1.4], not with the
\* week-movers formula.
Claim_C26_TrendingFormulaUsed ==
    (pc = "done" /\ req.handler = "advanced" /\ response.status = 200
        /\ <<"planner", 0>> \notin failed
        /\ (Test(ModeHintTrending, req.q) \/ req.mode = "trending"))
    => \A k \in 1..Len(videos) :
          /\ videos[k].freshnessBoost = TrendingBoost(videos[k].rawAgeHours)
          /\ videos[k].baseScore = TrendingFormula(videos[k])

\* C27 as stated: feedItems never holds a video of a blocked channel nor a hidden
\* video; once handleNotInterested blocked a channel, no other video of that
\* channel is left among the cards.
Claim_C27_NoBlockedOrHiddenCard ==
    page.rendered =>
        \A k \in 1..Len(page.feedItems) :
            /\ ~Includes(session.blockedChannelIds, page.feedItems[k].channelId)
            /\ ~Includes(session.hiddenVideoIds, page.feedItems[k].id)

\* C28: after unblockChannel(c) the channel has no strikes: its count is the
\* number of not-interested marks it received since, so one further mark leaves it
\* unblocked with count 1 (its videos get the 0.8 multiplier) and only the second
\* one blocks it again.
Thm_C28_UnblockClearsStrikes ==
    probe.kind = "unblocked" =>
        LET c == probe.channelId
        IN  /\ NotInterestedCount(session, c) = probe.marks
            /\ Includes(session.blockedChannelIds, c) <=> probe.marks >= 2
            /\ probe.marks = 1 =>
                  applySessionPenalties(<<PageVideo("v1", c, "", 100)>>,
                                        session)[1].sessionMultiplier = R(8, 10)

\* a channel that had been blocked was unblocked and then marked once
Wit_C28_OneMarkAfterUnblock ==
    /\ probe.kind = "unblocked"
    /\ probe.marks = 1
    /\ Len(session.hiddenVideoIds) >= 3
    /\ \A c \in ChannelIds \ {probe.channelId} : NotInterestedCount(session, c) = 0

\* C29: currentCardIndex is never negative and, whenever feedItems is not
\* empty, less than its length, after any sequence of load completions,
\* showNextCard, showPrevCard, handleNotInterested, mode changes and refreshes.
Thm_C29_CardIndexInRange ==
    page.rendered =>
        /\ page.currentCardIndex >= 0
        /\ page.feedItems # <<>> => page.currentCardIndex < Len(page.feedItems)

\* the last of three cards was marked not interested: the index moved back to
\* the card that is now the last
Wit_C29_LastCardMarked ==
    /\ page.rendered
    /\ session.hiddenVideoIds = <<"v2">>
    /\ Len(page.feedItems) = 2
    /\ page.currentCardIndex = 1
    /\ page.started = 1

\* C30 as stated: the queries of the fallback planner are at most 5, the first
\* is the clean query, and no two of them are equal.
Claim_C30_QueriesDistinct ==
    probe.kind = "plan" =>
        LET queries == probe.plan.queries
        IN  /\ Len(queries) <= MaxQueries
            /\ Len(queries) >= 1
            /\ queries[1] = probe.plan.cleanQuery
            /\ \A i, j \in 1..Len(queries) : i # j => queries[i] # queries[j]

====
